---- MODULE Spec2Model ----
(***************************************************************************)
(* A model of the voice-engine orchestration layer:                        *)
(*   - MemoryAudioCache / CompressedMemoryCache   (memory_cache.py)        *)
(*   - TextChunker and StreamingSynthesis         (streaming_synthesis.py) *)
(*   - ModelPool                                  (model_pool.py)          *)
(*   - the singleton ModelPool of the optimized service                    *)
(*                                                (optimized_tts_service.py)*)
(* Each component has its own specification (SpecCache, SpecChunk,         *)
(* SpecStream, SpecPool, SpecOptPool); the variables of the other          *)
(* components stay at their initial values in it.                          *)
(***************************************************************************)
EXTENDS Integers, Sequences, FiniteSets, TLC

VARIABLES
    \* ---- MemoryAudioCache ----
    compressed,     \* TRUE: the instance is a CompressedMemoryCache
    cache,          \* the OrderedDict, oldest first: Seq of [key, data, rate, size]
    stats,          \* self.stats
    ret,            \* the last cache call and what it returned (observation)
    touch,          \* stored keys by the time of their last successful put / get hit
    ops,            \* number of cache calls made so far
    nkeys,          \* number of distinct keys the callers have used so far
    \* ---- TextChunker ----
    text,           \* the text handed to chunk_text: a sequence of characters
    chunks,         \* the chunks chunk_text yielded, in order
    chunked,        \* TRUE once chunk_text has run
    max_chunk_length,   \* self.max_chunk_length
    min_chunk_length,   \* self.min_chunk_length
    \* ---- ModelPool (model_pool.py) ----
    models,         \* self.models: the names of the resident models
    current_memory_mb,
    meta,           \* the keys of model_metadata, load_times, access_count, last_access
    accessOrder,    \* the resident models by last_access, oldest first
    preload,        \* self.preload_models: the names eviction skips
    loading_lock,   \* the thread holding self.loading_lock, or "free"
    loading_queue,  \* self.loading_queue
    stop_loading,   \* self.stop_loading
    pc,             \* where each thread is
    arg,            \* the model name of each thread's current call
    res,            \* what get_model last returned, and for which name
    how,            \* how the _load_model_internal of a caller's call ended:
                    \* shortcut, loaded, or forced (loaded beyond the budget)
    charged,        \* per model: memory charges not yet released
    beforeLoad,     \* history: the resident set and current_memory_mb a load
                    \* found when it took the lock, while its engine call runs
    lateCall,       \* TRUE once a call was made after shutdown() had started
    calls,          \* the number of calls made to the pool so far
    \* ---- ModelPool of optimized_tts_service.py ----
    opt_models,     \* self.models with self.model_usage, in dict order
    max_models,     \* self.max_models
    preloading,     \* TRUE while the preload thread has not yet run
    optEver,        \* the names that have been resident at some time
    optRet,         \* the last get_model call and what it returned
    optCalls,       \* the number of get_model calls made so far
    \* ---- StreamingSynthesis (streaming_synthesis.py) ----
    synthesis_queue,    \* self.synthesis_queue: chunk ids, or the None item
    audio_queue,        \* self.audio_queue: results [chunk_id, kind]
    stop_event,         \* self.stop_event
    workerPc,           \* the synthesis thread: none, idle (at the top of its
                        \* loop), get (in synthesis_queue.get), synth or dead
    workerChunk,        \* the chunk id the synthesis thread is working on
    sstats,             \* self.stats
    cpc,                \* where the synthesize_streaming generator is
    total_chunks,       \* its locals
    chunks_received,
    expected_chunk_id,
    pending_chunks,
    events,             \* the events the generator has yielded in this call
    streamCalls,        \* the number of synthesize_streaming calls so far
    disturbed,          \* TRUE when the call overlaps an earlier call's work,
                        \* a stop_streaming, a timeout with work outstanding,
                        \* or a chunk dropped because the pool gave no model
    stopPc,             \* where the caller of stop_streaming is: idle or join
    stoppedStream,      \* the synthesize_streaming call that stop_streaming stopped last
    workerCall,         \* history: the synthesize_streaming call that queued the
                        \* chunk the worker holds (0: it holds none)
    afterStop,          \* history: the current synthesize_streaming call began
                        \* after a stop_streaming call had returned
    \* ---- PerformanceMonitor (performance_monitor.py) ----
    history_size,       \* self.history_size
    metrics_history,    \* self.metrics_history: the deque, oldest first
    active_requests,    \* self.active_requests: request id -> request data
    mstats,             \* self.stats
    monRet,             \* the last monitor call and what it returned
    completedLog,       \* every entry appended since the last reset, in order
    credit,             \* per id: 1 when started and not yet in the history
    overdrawn,          \* TRUE once an id got an entry without a start to pay for it
    peak,               \* the largest history length since the last reset
    variety,            \* inputs so far that differ from the common request
    budget,             \* completions the behaviour may still record
    resets,             \* reset_stats calls so far
    \* ---- TTSService (tts_service.py), OptimizedTTSService (optimized_tts_service.py) ----
    variant,            \* which service the instance is: "tts" or "optimized"
    current_model,      \* self.current_model
    is_ready,           \* self.is_ready
    audio_cache,        \* self.audio_cache: the cache keys, in dict order
    cache_files,        \* the cache_*.wav files in cache_dir, oldest mtime first
    memory_cache,       \* OptimizedTTSService.memory_cache: keys, least recently used first
    svc_queue,          \* self.synthesis_queue
    tpc,                \* where the caller and the worker thread are
    job,                \* per thread: the request it is working on
    svcRet,             \* the last finished call of the caller and how it ended
    fresh,              \* keys of the calls that missed and succeeded, with no eviction
                        \* of the entry, cache clear or switch to another model since
    entryModel,         \* per stored key: the model that was current for its request
    svcCalls,           \* the calls made to the service so far
    \* ---- the singletons of model_pool.py and memory_cache.py ----
    g_model_pool,       \* _model_pool of model_pool.py: "None" or "pool"
    g_memory_cache,     \* _memory_cache of memory_cache.py: "None" or "cache"
    poolPhase,          \* "uninit", "live", or "down" once shutdown_model_pool returned
    cachePhase,         \* the same for the memory cache
    lifeRet,            \* the last call of a module-level function and how it ended
    lifeCalls           \* the calls of the module-level functions so far

cacheVars == <<compressed, cache, stats, ret, touch, ops, nkeys>>
chunkVars == <<text, chunks, chunked, max_chunk_length, min_chunk_length>>
poolVars  == <<models, current_memory_mb, meta, accessOrder, preload, loading_lock,
               loading_queue, stop_loading, pc, arg, res, how, charged, beforeLoad,
               lateCall, calls>>

optVars   == <<opt_models, max_models, preloading, optEver, optRet, optCalls>>

streamVars == <<synthesis_queue, audio_queue, stop_event, workerPc, workerChunk,
                 sstats, cpc, total_chunks, chunks_received, expected_chunk_id,
                 pending_chunks, events, streamCalls, disturbed, stopPc,
                 stoppedStream, workerCall, afterStop>>

monVars == <<history_size, metrics_history, active_requests, mstats, monRet,
             completedLog, credit, overdrawn, peak, variety, budget, resets>>

svcVars == <<variant, current_model, is_ready, audio_cache, cache_files, memory_cache,
             svc_queue, tpc, job, svcRet, fresh, entryModel, svcCalls>>
lifeVars == <<g_model_pool, g_memory_cache, poolPhase, cachePhase, lifeRet, lifeCalls>>
vars == <<cacheVars, chunkVars, poolVars, optVars, streamVars, monVars, svcVars, lifeVars>>

(***************************************************************************)
(* Generic helpers                                                         *)
(***************************************************************************)
Range(s) == {s[i] : i \in 1..Len(s)}

RECURSIVE SumSeq(_)
SumSeq(s) == IF s = <<>> THEN 0 ELSE Head(s) + SumSeq(Tail(s))

\* Division truncating toward zero (numpy's float -> int16 cast).
TruncDiv(a, b) == IF a >= 0 THEN a \div b ELSE -((-a) \div b)

(***************************************************************************)
(* MemoryAudioCache: bounds and inputs                                     *)
(***************************************************************************)
\* Model bounds: the constructor's arguments, scaled down, and the inputs.
MaxSizeMb    == 2     \* max_size_mb
BytesPerMb   == 8     \* bytes in one "MB" of the scaled-down model
MaxEntries   == 3     \* max_entries
NumKeys      == 4     \* distinct cache keys used by the callers
MaxOps       == 5     \* cache calls per behaviour
SubSteps     == 2     \* float sample resolution: 1 unit = 1 / (QuantScale * SubSteps)

\* Program constants.
QuantScale   == 32767 \* the int16 quantization factor
RatioNum     == 3     \* compression_ratio = 0.3 = RatioNum / RatioDen
RatioDen     == 10

Keys == 1..NumKeys

\* A numpy buffer: its dtype and its samples.  A float sample x is held as
\* the integer x * QuantScale * SubSteps; an int16 sample as itself.
NoBuf == [dtype |-> "none", samples |-> <<>>]

Buf(dt, s) == [dtype |-> dt, samples |-> s]

\* A float64 buffer of silence one sample longer than the larger of the two
\* byte budgets (the compressed cache's): put refuses it in either cache, and
\* _compress_audio leaves float64 as it is.
OversizedBuffer ==
    Buf("float64",
        [i \in 1..((((MaxSizeMb * RatioDen) \div RatioNum) * BytesPerMb) \div 8 + 1) |-> 0])

\* The buffers callers put: a float32 value off the int16 grid, a negative
\* one beside one on the grid, a float64 buffer (soundfile's default dtype),
\* and one that is larger than the whole cache.
Buffers ==
    { Buf("float32", <<SubSteps + 1>>),
      Buf("float32", <<-(SubSteps + 1), 0>>),
      Buf("float64", <<SubSteps + 1>>),
      OversizedBuffer }

Rates == {22050}

ItemSize(dt) ==
    CASE dt = "float32" -> 4
      [] dt = "float64" -> 8
      [] dt = "int16"   -> 2
      [] OTHER          -> 0

\* _calculate_audio_size: audio_data.nbytes
CalculateAudioSize(buf) == Len(buf.samples) * ItemSize(buf.dtype)

\* CompressedMemoryCache.__init__: effective_size_mb = int(max_size_mb / ratio)
EffectiveSizeMb(mb) == (mb * RatioDen) \div RatioNum

\* MemoryAudioCache.__init__: max_size_bytes = max_size_mb * 1024 * 1024
MaxSizeBytes ==
    (IF compressed THEN EffectiveSizeMb(MaxSizeMb) ELSE MaxSizeMb) * BytesPerMb

\* _compress_audio: float32 -> (x * 32767).astype(int16); anything else as is
CompressAudio(buf) ==
    IF buf.dtype = "float32"
    THEN Buf("int16", [i \in 1..Len(buf.samples) |->
                          TruncDiv(buf.samples[i] * QuantScale,
                                   QuantScale * SubSteps)])
    ELSE buf

\* Mutant of DecompressAudio: the division by 32767.0 is forgotten.
DecompressAudio_NoDivision(buf) ==
    IF buf.dtype = "int16"
    THEN Buf("float32", [i \in 1..Len(buf.samples) |->
                            buf.samples[i] * QuantScale * SubSteps])
    ELSE buf

\* _decompress_audio: int16 -> astype(float32) / 32767.0; anything else as is
DecompressAudio(buf) ==
    IF buf.dtype = "int16"
    THEN Buf("float32", [i \in 1..Len(buf.samples) |->
                            (buf.samples[i] * QuantScale * SubSteps) \div QuantScale])
    ELSE buf

(***************************************************************************)
(* MemoryAudioCache: the OrderedDict                                       *)
(***************************************************************************)
CacheKeys(c) == {c[i].key : i \in 1..Len(c)}

KeyIndex(c, k) == CHOOSE i \in 1..Len(c) : c[i].key = k

RemoveAt(c, i) == SubSeq(c, 1, i - 1) \o SubSeq(c, i + 1, Len(c))

\* OrderedDict.__setitem__: an existing key keeps its position, a new key
\* goes to the end.
DictSet(c, e) ==
    IF e.key \in CacheKeys(c)
    THEN [c EXCEPT ![KeyIndex(c, e.key)] = e]
    ELSE Append(c, e)

\* The keys of sequence t without k, then k: k becomes the most recent.
Touched(t, k) == SelectSeq(t, LAMBDA x : x /= k) \o <<k>>

\* The touch order restricted to the keys that are stored.
TouchKept(t, c) == SelectSeq(t, LAMBDA x : x \in CacheKeys(c))

\* _evict_lru(needed_bytes) on (cache, stats): pops the head while the cache
\* is not empty and it is over the byte budget or at the entry limit.
RECURSIVE EvictLru(_, _, _)
EvictLru(c, st, needed) ==
    IF c /= <<>> /\ ( st.current_size_bytes + needed > MaxSizeBytes
                      \/ Len(c) >= MaxEntries )
    THEN EvictLru(Tail(c),
                  [st EXCEPT !.current_size_bytes = @ - Head(c).size,
                             !.current_entries = @ - 1,
                             !.evictions = @ + 1],
                  needed)
    ELSE [cache |-> c, stats |-> st]

NoRet == [op |-> "none", key |-> 0, ok |-> FALSE, data |-> NoBuf, rate |-> 0,
          afterPut |-> FALSE, putData |-> NoBuf, putRate |-> 0,
          keysBefore |-> {}, lruBefore |-> 0, fullEqual |-> FALSE]

\* The entry whose last successful put or get hit is the oldest.
LruKey(t) == IF t = <<>> THEN 0 ELSE Head(t)

\* All MaxEntries slots are taken by entries of size sz and they fit the budget.
FullOfEqual(c, sz) ==
    /\ Len(c) = MaxEntries
    /\ \A i \in 1..Len(c) : c[i].size = sz
    /\ MaxEntries * sz <= MaxSizeBytes

InitCache ==
    /\ compressed \in BOOLEAN
    /\ cache = <<>>
    /\ stats = [hits |-> 0, misses |-> 0, evictions |-> 0,
                current_size_bytes |-> 0, current_entries |-> 0,
                total_requests |-> 0]
    /\ ret = NoRet
    /\ touch = <<>>
    /\ ops = 0
    /\ nkeys = 0

\* Mutant of PutStored: the size check is made after the old entry of a
\* present key has been taken out of the statistics.
PutStored_ChecksSizeLate(key, orig, stored, rate) ==
    LET size == CalculateAudioSize(stored)
        st1  == IF key \in CacheKeys(cache)
                THEN [stats EXCEPT
                        !.current_size_bytes = @ - cache[KeyIndex(cache, key)].size,
                        !.current_entries = @ - 1]
                ELSE stats
    IN IF size > MaxSizeBytes
       THEN /\ ret' = [NoRet EXCEPT !.op = "put", !.key = key, !.ok = FALSE,
                                    !.data = orig, !.rate = rate]
            /\ stats' = st1
            /\ UNCHANGED <<cache, touch>>
       ELSE LET ev == EvictLru(cache, st1, size)
                c2 == DictSet(ev.cache, [key |-> key, data |-> stored,
                                         rate |-> rate, size |-> size])
            IN /\ cache' = c2
               /\ stats' = [ev.stats EXCEPT !.current_size_bytes = @ + size,
                                            !.current_entries = @ + 1]
               /\ touch' = TouchKept(Touched(touch, key), c2)
               /\ ret' = [NoRet EXCEPT !.op = "put", !.key = key, !.ok = TRUE,
                                       !.data = orig, !.rate = rate,
                                       !.keysBefore = CacheKeys(cache),
                                       !.lruBefore = LruKey(touch),
                                       !.fullEqual = FullOfEqual(cache, size)]

\* MemoryAudioCache.put (for the compressed cache: after _compress_audio).
PutStored(key, orig, stored, rate) ==
    LET size == CalculateAudioSize(stored) IN
    IF size > MaxSizeBytes
    THEN /\ ret' = [NoRet EXCEPT !.op = "put", !.key = key, !.ok = FALSE,
                                 !.data = orig, !.rate = rate]
         /\ UNCHANGED <<cache, stats, touch>>
    ELSE LET st1 == IF key \in CacheKeys(cache)
                    THEN [stats EXCEPT
                            !.current_size_bytes = @ - cache[KeyIndex(cache, key)].size,
                            !.current_entries = @ - 1]
                    ELSE stats
             ev  == EvictLru(cache, st1, size)
             c2  == DictSet(ev.cache, [key |-> key, data |-> stored,
                                       rate |-> rate, size |-> size])
         IN /\ cache' = c2
            /\ stats' = [ev.stats EXCEPT !.current_size_bytes = @ + size,
                                         !.current_entries = @ + 1]
            /\ touch' = TouchKept(Touched(touch, key), c2)
            /\ ret' = [NoRet EXCEPT !.op = "put", !.key = key, !.ok = TRUE,
                                    !.data = orig, !.rate = rate,
                                    !.keysBefore = CacheKeys(cache),
                                    !.lruBefore = LruKey(touch),
                                    !.fullEqual = FullOfEqual(cache, size)]

\* put of the instance: CompressedMemoryCache.put compresses first.
Put(key, buf, rate) ==
    /\ ops < MaxOps
    /\ ops' = ops + 1
    /\ PutStored(key, buf, IF compressed THEN CompressAudio(buf) ELSE buf, rate)
    /\ UNCHANGED compressed

\* MemoryAudioCache.get, and CompressedMemoryCache.get on top of it.
GetStored(key) ==
    LET prevPut == ret.op = "put" /\ ret.ok /\ ret.key = key IN
       IF key \in CacheKeys(cache)
       THEN LET i == KeyIndex(cache, key)
                e == cache[i]
            IN /\ cache' = Append(RemoveAt(cache, i), e)
               /\ stats' = [stats EXCEPT !.total_requests = @ + 1, !.hits = @ + 1]
               /\ touch' = Touched(touch, key)
               /\ ret' = [NoRet EXCEPT
                            !.op = "get", !.key = key, !.ok = TRUE,
                            !.data = IF compressed THEN DecompressAudio(e.data)
                                                   ELSE e.data,
                            !.rate = e.rate,
                            !.afterPut = prevPut,
                            !.putData = IF prevPut THEN ret.data ELSE NoBuf,
                            !.putRate = IF prevPut THEN ret.rate ELSE 0]
       ELSE /\ stats' = [stats EXCEPT !.total_requests = @ + 1, !.misses = @ + 1]
            /\ ret' = [NoRet EXCEPT !.op = "get", !.key = key, !.ok = FALSE]
            /\ UNCHANGED <<cache, touch>>

\* get of the instance.
Get(key) ==
    /\ ops < MaxOps
    /\ ops' = ops + 1
    /\ GetStored(key)
    /\ UNCHANGED compressed

\* MemoryAudioCache.has
Has(key) ==
    /\ ops < MaxOps
    /\ ops' = ops + 1
    /\ ret' = [NoRet EXCEPT !.op = "has", !.key = key,
                            !.ok = (key \in CacheKeys(cache))]
    /\ UNCHANGED <<compressed, cache, stats, touch>>

\* MemoryAudioCache.delete
Delete(key) ==
    /\ ops < MaxOps
    /\ ops' = ops + 1
    /\ IF key \in CacheKeys(cache)
       THEN LET i == KeyIndex(cache, key) IN
            /\ cache' = RemoveAt(cache, i)
            /\ stats' = [stats EXCEPT !.current_size_bytes = @ - cache[i].size,
                                      !.current_entries = @ - 1]
            /\ touch' = SelectSeq(touch, LAMBDA x : x /= key)
            /\ ret' = [NoRet EXCEPT !.op = "delete", !.key = key, !.ok = TRUE]
       ELSE /\ ret' = [NoRet EXCEPT !.op = "delete", !.key = key, !.ok = FALSE]
            /\ UNCHANGED <<cache, stats, touch>>
    /\ UNCHANGED compressed

\* MemoryAudioCache.clear
ClearStored ==
    /\ cache' = <<>>
    /\ stats' = [stats EXCEPT !.current_size_bytes = 0, !.current_entries = 0,
                              !.evictions = @ + Len(cache)]
    /\ touch' = <<>>
    /\ ret' = [NoRet EXCEPT !.op = "clear", !.ok = TRUE]

\* clear of the instance.
Clear ==
    /\ ops < MaxOps
    /\ ops' = ops + 1
    /\ ClearStored
    /\ UNCHANGED compressed

\* The callers' keys are interchangeable (the cache only compares them), so
\* the keys are numbered in the order of their first use: a call names a key
\* used before or the next unused one.
NextKeys == {k \in Keys : k <= nkeys + 1}

UseKey(k) == nkeys' = IF k > nkeys THEN k ELSE nkeys

CachePut    == \E k \in NextKeys, b \in Buffers, r \in Rates :
                   Put(k, b, r) /\ UseKey(k)
CacheGet    == \E k \in NextKeys : Get(k) /\ UseKey(k)
CacheHas    == \E k \in NextKeys : Has(k) /\ UseKey(k)
CacheDelete == \E k \in NextKeys : Delete(k) /\ UseKey(k)
CacheClear  == Clear /\ UNCHANGED nkeys

\* The bytes actually held by the stored entries.
StoredBytes == SumSeq([i \in 1..Len(cache) |-> cache[i].size])

(***************************************************************************)
(* TextChunker                                                             *)
(***************************************************************************)
\* Model bounds: the default configuration (max_chunk_length = 50,
\* min_chunk_length = 10), scaled down, and the inputs.
MaxChunkLength == 4   \* max_chunk_length of the default configuration
MinChunkLength == 2   \* min_chunk_length of the default configuration
MaxTextLen     == 6   \* characters of an input text

\* The configurations TextChunker is constructed with, as <<max_chunk_length,
\* min_chunk_length>>: the default one, and one whose minimum is as large as
\* its maximum.
Configs == { <<MaxChunkLength, MinChunkLength>>,
             <<MaxChunkLength + 1, MaxChunkLength + 1>> }

\* Program constant: SecurityValidator.MAX_TEXT_LENGTH
MaxTextLength  == 10000

\* The characters of the inputs: a letter, a sentence ending, two phrase
\* boundaries (";" is also one of the characters the injection pattern
\* rejects), a blank, and "^A", which stands for the control character \x01
\* (not whitespace; removed by the sanitizer).
Chars == {"a", ".", ",", ";", " ", "^A"}

SentenceEndings == {".", "!", "?"}
PhraseBoundaries == {",", ":", ";"}
Whitespace == {" ", "\t", "\n"}
\* (the character class also holds the backquote)
InjectionChars == {";", "&", "|", "$", "(", ")", "{", "}", "[", "]", "<", ">"}
ControlChars == {"^A"}

Texts == UNION {[1..n -> Chars] : n \in 0..MaxTextLen}

\* str.strip()
RECURSIVE LStrip(_)
LStrip(t) == IF t /= <<>> /\ Head(t) \in Whitespace THEN LStrip(Tail(t)) ELSE t

RECURSIVE RStrip(_)
RStrip(t) ==
    IF t /= <<>> /\ t[Len(t)] \in Whitespace THEN RStrip(SubSeq(t, 1, Len(t) - 1))
    ELSE t

Strip(t) == RStrip(LStrip(t))

\* str.split(): the maximal runs of characters that are not whitespace.
RECURSIVE SplitFrom(_, _, _)
SplitFrom(t, word, out) ==
    IF t = <<>> THEN (IF word = <<>> THEN out ELSE Append(out, word))
    ELSE IF Head(t) \in Whitespace
         THEN SplitFrom(Tail(t), <<>>, IF word = <<>> THEN out ELSE Append(out, word))
         ELSE SplitFrom(Tail(t), Append(word, Head(t)), out)

Split(t) == SplitFrom(t, <<>>, <<>>)

\* " ".join(words)
RECURSIVE JoinSpaces(_)
JoinSpaces(ws) ==
    IF ws = <<>> THEN <<>>
    ELSE IF Len(ws) = 1 THEN ws[1]
    ELSE ws[1] \o <<" ">> \o JoinSpaces(Tail(ws))

\* SecurityValidator.validate_text_input: [ok, text].  It rejects a text that
\* is too long, blank, or matches an injection pattern (of the patterns only
\* the character class can match a text over Chars) and returns the text
\* without its control characters.
ValidateTextInput(t) ==
    IF Len(t) > MaxTextLength \/ Strip(t) = <<>>
       \/ \E i \in 1..Len(t) : t[i] \in InjectionChars
    THEN [ok |-> FALSE, text |-> <<>>]
    ELSE [ok |-> TRUE, text |-> SelectSeq(t, LAMBDA ch : ch \notin ControlChars)]

\* f"{current_chunk} {word}".strip()
Potential(current, word) == Strip(current \o <<" ">> \o word)

\* len(current_chunk) >= self.max_chunk_length * 0.8
LongEnoughForPhrase(current) == 10 * Len(current) >= 8 * max_chunk_length

\* Mutant of WordStep: after yielding the chunk that the word does not fit
\* into, the next chunk starts empty instead of with the word.
WordStep_DropsWord(current, out, word) ==
    LET potential == Potential(current, word)
    IN IF Len(potential) <= max_chunk_length
       THEN [current |-> potential, out |-> out]
       ELSE IF Len(current) >= min_chunk_length
            THEN [current |-> <<>>, out |-> Append(out, current)]
            ELSE [current |-> potential, out |-> out]

\* One pass of the loop over words: [current, out] after the word.
WordStep(current, out, word) ==
    LET potential == Potential(current, word)
        s1 == IF Len(potential) <= max_chunk_length
              THEN [current |-> potential, out |-> out]
              ELSE IF Len(current) >= min_chunk_length
                   THEN [current |-> word, out |-> Append(out, current)]
                   ELSE [current |-> potential, out |-> out]
        last == word[Len(word)]
    IN IF last \in SentenceEndings
       THEN (IF Len(s1.current) >= min_chunk_length
             THEN [current |-> <<>>, out |-> Append(s1.out, s1.current)]
             ELSE s1)
       ELSE IF last \in PhraseBoundaries
       THEN (IF LongEnoughForPhrase(s1.current)
             THEN [current |-> <<>>, out |-> Append(s1.out, s1.current)]
             ELSE s1)
       ELSE s1

RECURSIVE ChunkWords(_, _, _)
ChunkWords(words, current, out) ==
    IF words = <<>>
    THEN (IF Strip(current) /= <<>> THEN Append(out, Strip(current)) ELSE out)
    ELSE LET s == WordStep(current, out, Head(words))
         IN ChunkWords(Tail(words), s.current, s.out)

\* TextChunker.chunk_text: the chunks it yields for a text.
ChunkTextOf(t) ==
    IF Strip(t) = <<>> THEN <<>>
    ELSE LET v == ValidateTextInput(Strip(t))
         IN IF ~v.ok THEN <<>> ELSE ChunkWords(Split(v.text), <<>>, <<>>)

InitChunk ==
    /\ \E c \in Configs : max_chunk_length = c[1] /\ min_chunk_length = c[2]
    /\ text \in Texts
    /\ chunks = <<>>
    /\ chunked = FALSE

\* The chunker is not in use.
ParkChunk ==
    /\ max_chunk_length = MaxChunkLength
    /\ min_chunk_length = MinChunkLength
    /\ text = <<>>
    /\ chunks = <<>>
    /\ chunked = FALSE

ChunkText ==
    /\ ~chunked
    /\ chunks' = ChunkTextOf(text)
    /\ chunked' = TRUE
    /\ UNCHANGED <<text, max_chunk_length, min_chunk_length>>

(***************************************************************************)
(* ModelPool (model_pool.py)                                               *)
(***************************************************************************)
\* Model bounds: the pool's max_memory_mb, and the calls of get_model,
\* async_load_model and unload_model in one run.
MaxMemoryMb == 900
MaxCalls == 3

\* MODEL_CONFIGS: the catalog and each model's memory_mb.
Catalog == {"default", "fast", "vits", "jenny"}

MemoryMb(m) ==
    CASE m = "default" -> 400
      [] m = "fast"    -> 300
      [] m = "vits"    -> 600
      [] m = "jenny"   -> 500

\* The names callers ask for: models of the catalog, a well-formed name that
\* is not in the catalog, and a name validate_model rejects.
ModelNames == {"default", "fast", "vits", "bogus", "no/such"}

\* validate_model_name: only letters, digits, "_" and "-", at most 50 long.
ValidModelName(n) == n /= "no/such"

\* The preload lists the repository constructs the pool with.
PreloadLists == { {}, {"default", "fast"} }

Callers == {"c1", "c2"}
Worker == "worker"
Closer == "closer"
Loaders == Callers \cup {Worker}
Threads == Loaders \cup {Closer}

StopItem == "<None>"

\* No engine call is running.
NoSnapshot == [models |-> {}, memory |-> -1]

\* What get_model last returned, and for which name.
NoRes == [name |-> "", outcome |-> ""]

InitPool ==
    /\ models = {}
    /\ current_memory_mb = 0
    /\ meta = {}
    /\ accessOrder = <<>>
    /\ preload \in PreloadLists
    /\ loading_lock = "free"
    /\ loading_queue = <<>>
    /\ stop_loading = FALSE
    /\ pc = [t \in Threads |-> "idle"]
    /\ arg = [t \in Threads |-> ""]
    /\ res = NoRes
    /\ how = [t \in Callers |-> ""]
    /\ charged = [m \in Catalog |-> 0]
    /\ beforeLoad = NoSnapshot
    /\ lateCall = FALSE
    /\ calls = 0

\* The pool is not in use.
ParkPool == InitPool /\ preload = {}

ShutdownStarted == pc[Closer] /= "idle"

\* _evict_lru_models: over the resident models, oldest access first, until
\* the memory freed reaches needed_memory_mb; models of the preload list are
\* skipped.  st = [models, memory, meta, order].
\* The memory_mb of a set of models, summed.
RECURSIVE SumMemoryMb(_)
SumMemoryMb(S) ==
    IF S = {} THEN 0
    ELSE LET m == CHOOSE x \in S : TRUE IN MemoryMb(m) + SumMemoryMb(S \ {m})

RECURSIVE EvictLoop(_, _, _, _)
EvictLoop(byAccess, freed, needed, st) ==
    IF byAccess = <<>> \/ freed >= needed THEN st
    ELSE LET m == Head(byAccess) IN
         IF m \in preload
         THEN EvictLoop(Tail(byAccess), freed, needed, st)
         ELSE EvictLoop(Tail(byAccess), freed + MemoryMb(m), needed,
                        [models |-> st.models \ {m},
                         memory |-> st.memory - MemoryMb(m),
                         meta   |-> st.meta \ {m},
                         order  |-> SelectSeq(st.order, LAMBDA x : x /= m)])

\* An eviction that takes every resident model, the preload list included.
EvictLruModels_TakesAll(needed) ==
    [models |-> {}, memory |-> 0, meta |-> {}, order |-> <<>>]

EvictLruModels(needed) ==
    EvictLoop(accessOrder, 0, needed,
              [models |-> models, memory |-> current_memory_mb,
               meta |-> meta, order |-> accessOrder])

\* A residency check that never finds the model.
AlreadyLoaded_Never(n) == FALSE

\* _load_model_internal, under the lock: "if model_name in self.models".
AlreadyLoaded(n) == n \in models

\* get_model returns to its caller.
Returns(t, outcome) ==
    /\ res' = [name |-> arg[t], outcome |-> outcome]
    /\ pc' = [pc EXCEPT ![t] = "idle"]
    /\ arg' = [arg EXCEPT ![t] = ""]
    /\ how' = [how EXCEPT ![t] = ""]

\* _load_model_internal releases the lock and returns to its caller:
\* get_model goes on to bump the access metadata (True) or returns None
\* (False); the worker loops.
LoadReturns(t, ok, h) ==
    /\ loading_lock' = "free"
    /\ IF t \in Callers
       THEN IF ok THEN /\ pc' = [pc EXCEPT ![t] = "post"]
                       /\ how' = [how EXCEPT ![t] = h]
                       /\ UNCHANGED <<res, arg>>
                  ELSE Returns(t, "none")
       ELSE /\ pc' = [pc EXCEPT ![t] = "idle"]
            /\ arg' = [arg EXCEPT ![t] = ""]
            /\ UNCHANGED <<res, how>>

\* get_model, up to the residency check.  The calling threads are
\* interchangeable and an idle one holds no state, so the second thread
\* begins a call only while the first is inside one.
GetModelCall(t, n) ==
    /\ t \in Callers
    /\ pc[t] = "idle"
    /\ t = "c2" => pc["c1"] /= "idle"
    /\ calls < MaxCalls
    /\ calls' = calls + 1
    /\ lateCall' = (lateCall \/ ShutdownStarted)
    /\ IF ~ValidModelName(n)
       THEN /\ res' = [name |-> n, outcome |-> "none"]
            /\ UNCHANGED <<pc, arg>>
       ELSE /\ arg' = [arg EXCEPT ![t] = n]
            /\ pc' = [pc EXCEPT ![t] = IF n \in models THEN "hit" ELSE "wait"]
            /\ UNCHANGED res
    /\ UNCHANGED <<models, current_memory_mb, meta, accessOrder, preload,
                   loading_lock, loading_queue, stop_loading, how, charged,
                   beforeLoad>>

\* get_model: access_count[name] += 1, last_access[name] = now, and
\* return self.models[name], on the fast path and after a load.  A key that
\* was removed meanwhile raises KeyError out of get_model.
BumpAndReturn(t) ==
    /\ t \in Callers
    /\ pc[t] \in {"hit", "post"}
    /\ IF arg[t] \in meta /\ arg[t] \in models
       THEN /\ accessOrder' = Touched(accessOrder, arg[t])
            /\ Returns(t, "handle")
       ELSE /\ Returns(t, "error")
            /\ UNCHANGED accessOrder
    /\ UNCHANGED <<models, current_memory_mb, meta, preload, loading_lock,
                   loading_queue, stop_loading, charged, beforeLoad, lateCall,
                   calls>>

\* _load_model_internal from taking self.loading_lock up to the engine call:
\* the residency check, the validation, the catalog lookup and the eviction.
LoadBegin(t) ==
    /\ t \in Loaders
    /\ pc[t] = "wait"
    /\ loading_lock = "free"
    /\ IF AlreadyLoaded(arg[t])
       THEN /\ LoadReturns(t, TRUE, "shortcut")
            /\ UNCHANGED <<models, current_memory_mb, meta, accessOrder, charged,
                           beforeLoad>>
       ELSE IF ~ValidModelName(arg[t]) \/ arg[t] \notin Catalog
       THEN /\ LoadReturns(t, FALSE, "unknown")
            /\ UNCHANGED <<models, current_memory_mb, meta, accessOrder, charged,
                           beforeLoad>>
       ELSE /\ LET st == IF current_memory_mb + MemoryMb(arg[t]) > MaxMemoryMb
                         THEN EvictLruModels(MemoryMb(arg[t]))
                         ELSE [models |-> models, memory |-> current_memory_mb,
                               meta |-> meta, order |-> accessOrder]
               IN /\ models' = st.models
                  /\ current_memory_mb' = st.memory
                  /\ meta' = st.meta
                  /\ accessOrder' = st.order
                  /\ charged' = [m \in Catalog |->
                                    IF m \in models \ st.models
                                    THEN charged[m] - 1 ELSE charged[m]]
            /\ beforeLoad' = [models |-> models, memory |-> current_memory_mb]
            /\ loading_lock' = t
            /\ pc' = [pc EXCEPT ![t] = "loading"]
            /\ UNCHANGED <<arg, res, how>>
    /\ UNCHANGED <<preload, loading_queue, stop_loading, lateCall, calls>>

\* Mutant of LoadEnd: a load whose engine call raises is charged all the same.
LoadEnd_ChargesFailure(t, ok) ==
    /\ t \in Loaders
    /\ pc[t] = "loading"
    /\ IF ok
       THEN /\ models' = models \cup {arg[t]}
            /\ meta' = meta \cup {arg[t]}
            /\ accessOrder' = Touched(accessOrder, arg[t])
            /\ current_memory_mb' = current_memory_mb + MemoryMb(arg[t])
            /\ charged' = [charged EXCEPT ![arg[t]] = @ + 1]
            /\ LoadReturns(t, TRUE,
                           IF current_memory_mb + MemoryMb(arg[t]) > MaxMemoryMb
                           THEN "forced" ELSE "loaded")
       ELSE /\ LoadReturns(t, FALSE, "failed")
            /\ current_memory_mb' = current_memory_mb + MemoryMb(arg[t])
            /\ UNCHANGED <<models, meta, accessOrder, charged>>
    /\ beforeLoad' = NoSnapshot
    /\ UNCHANGED <<preload, loading_queue, stop_loading, lateCall, calls>>

\* _load_model_internal: the engine call returns (ok) or raises (~ok).  A
\* load that succeeds is noted as "forced" when the eviction before it left
\* less room than the model needs, and as "loaded" otherwise.
LoadEnd(t, ok) ==
    /\ t \in Loaders
    /\ pc[t] = "loading"
    /\ IF ok
       THEN /\ models' = models \cup {arg[t]}
            /\ meta' = meta \cup {arg[t]}
            /\ accessOrder' = Touched(accessOrder, arg[t])
            /\ current_memory_mb' = current_memory_mb + MemoryMb(arg[t])
            /\ charged' = [charged EXCEPT ![arg[t]] = @ + 1]
            /\ LoadReturns(t, TRUE,
                           IF current_memory_mb + MemoryMb(arg[t]) > MaxMemoryMb
                           THEN "forced" ELSE "loaded")
       ELSE /\ LoadReturns(t, FALSE, "failed")
            /\ UNCHANGED <<models, meta, accessOrder, current_memory_mb, charged>>
    /\ beforeLoad' = NoSnapshot
    /\ UNCHANGED <<preload, loading_queue, stop_loading, lateCall, calls>>

\* _loading_worker: one pass of its loop that does not time out.
WorkerLoop ==
    /\ pc[Worker] = "idle"
    /\ IF stop_loading
       THEN /\ pc' = [pc EXCEPT ![Worker] = "dead"]
            /\ UNCHANGED <<loading_queue, arg>>
       ELSE /\ loading_queue /= <<>>
            /\ loading_queue' = Tail(loading_queue)
            /\ IF Head(loading_queue) = StopItem
               THEN /\ pc' = [pc EXCEPT ![Worker] = "dead"]
                    /\ UNCHANGED arg
               ELSE /\ pc' = [pc EXCEPT ![Worker] = "wait"]
                    /\ arg' = [arg EXCEPT ![Worker] = Head(loading_queue)]
    /\ UNCHANGED <<models, current_memory_mb, meta, accessOrder, preload,
                   loading_lock, stop_loading, res, how, charged, beforeLoad,
                   lateCall, calls>>

\* async_load_model
AsyncLoadModel(n) ==
    /\ n \notin models
    /\ calls < MaxCalls
    /\ calls' = calls + 1
    /\ loading_queue' = Append(loading_queue, n)
    /\ lateCall' = (lateCall \/ ShutdownStarted)
    /\ UNCHANGED <<models, current_memory_mb, meta, accessOrder, preload,
                   loading_lock, stop_loading, pc, arg, res, how, charged,
                   beforeLoad>>

\* Mutant of UnloadModel: the model's memory_mb is not given back.
UnloadModel_KeepsMemory(n) ==
    /\ ValidModelName(n)
    /\ loading_lock = "free"
    /\ n \in models
    /\ calls < MaxCalls
    /\ calls' = calls + 1
    /\ models' = models \ {n}
    /\ meta' = meta \ {n}
    /\ accessOrder' = SelectSeq(accessOrder, LAMBDA x : x /= n)
    /\ charged' = [charged EXCEPT ![n] = @ - 1]
    /\ lateCall' = (lateCall \/ ShutdownStarted)
    /\ UNCHANGED <<current_memory_mb, preload, loading_lock, loading_queue,
                   stop_loading, pc, arg, res, how, beforeLoad>>

\* unload_model: the lock is taken and released within the call.
UnloadModel(n) ==
    /\ ValidModelName(n)
    /\ loading_lock = "free"
    /\ n \in models
    /\ calls < MaxCalls
    /\ calls' = calls + 1
    /\ models' = models \ {n}
    /\ current_memory_mb' = current_memory_mb - MemoryMb(n)
    /\ meta' = meta \ {n}
    /\ accessOrder' = SelectSeq(accessOrder, LAMBDA x : x /= n)
    /\ charged' = [charged EXCEPT ![n] = @ - 1]
    /\ lateCall' = (lateCall \/ ShutdownStarted)
    /\ UNCHANGED <<preload, loading_lock, loading_queue, stop_loading, pc, arg,
                   res, how, beforeLoad>>

\* shutdown: stop_loading = True and the None item for the worker.
ShutdownBegin ==
    /\ pc[Closer] = "idle"
    /\ stop_loading' = TRUE
    /\ loading_queue' = Append(loading_queue, StopItem)
    /\ pc' = [pc EXCEPT ![Closer] = "join"]
    /\ UNCHANGED <<models, current_memory_mb, meta, accessOrder, preload,
                   loading_lock, arg, res, how, charged, beforeLoad, lateCall,
                   calls>>

\* shutdown: loading_thread.join(timeout=5.0) returns, because the worker has
\* ended or because it is still waiting for the lock or loading after 5 s.
ShutdownJoin ==
    /\ pc[Closer] = "join"
    /\ pc[Worker] \in {"dead", "wait", "loading"}
    /\ pc' = [pc EXCEPT ![Closer] = "wait"]
    /\ UNCHANGED <<models, current_memory_mb, meta, accessOrder, preload,
                   loading_lock, loading_queue, stop_loading, arg, res, how,
                   charged, beforeLoad, lateCall, calls>>

\* shutdown under the lock: every model is deleted from self.models and
\* current_memory_mb is set to 0; then shutdown returns.
ShutdownClear ==
    /\ pc[Closer] = "wait"
    /\ loading_lock = "free"
    /\ models' = {}
    /\ accessOrder' = <<>>
    /\ current_memory_mb' = 0
    /\ charged' = [m \in Catalog |-> 0]
    /\ pc' = [pc EXCEPT ![Closer] = "done"]
    /\ UNCHANGED <<meta, preload, loading_lock, loading_queue, stop_loading,
                   arg, res, how, beforeLoad, lateCall, calls>>

PoolGetModel   == \E t \in Callers, n \in ModelNames : GetModelCall(t, n)
PoolBump       == \E t \in Callers : BumpAndReturn(t)
PoolLoadBegin  == \E t \in Loaders : LoadBegin(t)
PoolLoadEnd    == \E t \in Loaders, ok \in BOOLEAN : LoadEnd(t, ok)
PoolAsyncLoad  == \E n \in ModelNames : AsyncLoadModel(n)
PoolUnload     == \E n \in ModelNames : UnloadModel(n)

(***************************************************************************)
(* ModelPool of optimized_tts_service.py                                   *)
(***************************************************************************)
\* Model bound: get_model calls in one run.
MaxOptCalls == 4

\* Program constant: _calculate_max_models caps max_models at 3.
MaxModelsCap == 3

\* VOICE_MODELS in _load_model_sync.
VoiceModels == {"default", "fast", "vits", "jenny"}

\* The names callers ask for.
OptNames == VoiceModels \cup {"bogus"}

OptResident(ms) == {ms[i].name : i \in 1..Len(ms)}

NoOptRet == [name |-> "", outcome |-> "", before |-> {}, after |-> {},
             neverLoaded |-> FALSE]

InitOpt ==
    /\ opt_models = <<>>
    /\ max_models \in 1..MaxModelsCap
    /\ preloading = TRUE
    /\ optEver = {}
    /\ optRet = NoOptRet
    /\ optCalls = 0

\* This pool is not in use.
ParkOpt == InitOpt /\ max_models = 1

\* _evict_least_used: min() over model_usage.items() takes the first entry
\* with the lowest usage count.
EvictLeastUsed(ms) ==
    IF ms = <<>> THEN ms
    ELSE LET least == CHOOSE i \in 1..Len(ms) :
                          /\ \A j \in 1..Len(ms) : ms[i].usage <= ms[j].usage
                          /\ \A j \in 1..(i - 1) : ms[j].usage > ms[i].usage
         IN RemoveAt(ms, least)

\* _load_model_sync, for a name that is not resident: a name VOICE_MODELS
\* does not know gets the path of "default"; a full pool evicts first; then
\* the engine loads (ok) or raises (~ok), which is caught.
LoadModelSync(ms, n, ok) ==
    LET room == IF Len(ms) >= max_models THEN EvictLeastUsed(ms) ELSE ms
    IN IF ok THEN Append(room, [name |-> n, usage |-> 0]) ELSE room

\* get_model(n): the fast path for a resident name, else _load_model_sync.
OptGetModel(n, ok) ==
    /\ optCalls < MaxOptCalls
    /\ optCalls' = optCalls + 1
    /\ opt_models' =
          IF n \in OptResident(opt_models)
          THEN [i \in 1..Len(opt_models) |->
                   IF opt_models[i].name = n
                   THEN [opt_models[i] EXCEPT !.usage = @ + 1]
                   ELSE opt_models[i]]
          ELSE LoadModelSync(opt_models, n, ok)
    /\ optEver' = optEver \cup OptResident(opt_models')
    /\ optRet' = [name |-> n,
                  outcome |-> IF n \in OptResident(opt_models') THEN "handle"
                                                                 ELSE "none",
                  before |-> OptResident(opt_models),
                  after |-> OptResident(opt_models'),
                  neverLoaded |-> n \notin optEver]
    /\ UNCHANGED <<max_models, preloading>>

\* _preload_default_model: the thread __init__ starts runs
\* _load_model_sync("default").
OptPreload(ok) ==
    /\ preloading
    /\ preloading' = FALSE
    /\ opt_models' = IF "default" \in OptResident(opt_models) THEN opt_models
                     ELSE LoadModelSync(opt_models, "default", ok)
    /\ optEver' = optEver \cup OptResident(opt_models')
    /\ UNCHANGED <<max_models, optRet, optCalls>>

OptGet == \E n \in OptNames, ok \in BOOLEAN : OptGetModel(n, ok)
OptPre == \E ok \in BOOLEAN : OptPreload(ok)

(***************************************************************************)
(* StreamingSynthesis (streaming_synthesis.py)                             *)
(***************************************************************************)
\* Model bounds: the chunks of one text, and the calls of
\* synthesize_streaming in one run.
MaxChunks == 3
MaxStreamCalls == 2

NoneItem == -1

ResetStats == [chunks_processed |-> 0, streaming_started |-> FALSE]

Event(type, id) == [type |-> type, chunk_id |-> id]

\* The synthesize_streaming call that queued the chunks synthesis_queue
\* holds: until the current call has emptied and refilled the queue
\* (lines 262-282) they are those of the call before it.
QueuedBy == IF cpc = "clear" THEN streamCalls - 1 ELSE streamCalls

InitStream ==
    /\ synthesis_queue = <<>>
    /\ audio_queue = <<>>
    /\ stop_event = FALSE
    /\ workerPc = "none"
    /\ workerChunk = NoneItem
    /\ sstats = ResetStats
    /\ cpc = "idle"
    /\ total_chunks = 0
    /\ chunks_received = 0
    /\ expected_chunk_id = 0
    /\ pending_chunks = {}
    /\ events = <<>>
    /\ streamCalls = 0
    /\ disturbed = FALSE
    /\ stopPc = "idle"
    /\ stoppedStream = 0
    /\ workerCall = 0
    /\ afterStop = FALSE

\* Streaming is not in use.
ParkStream == InitStream

\* synthesize_streaming(text) for a text that is not blank and that the
\* chunker splits into n chunks (none when validation rejects the text), up
\* to the start of the worker: the stats are reset and the synthesis thread
\* is started unless one is alive.
StreamBegin(n) ==
    /\ cpc \in {"idle", "done"}
    /\ streamCalls < MaxStreamCalls
    /\ streamCalls' = streamCalls + 1
    /\ sstats' = ResetStats
    /\ IF workerPc \in {"none", "dead"}
       THEN stop_event' = FALSE /\ workerPc' = "idle"
       ELSE UNCHANGED <<stop_event, workerPc>>
    /\ total_chunks' = n
    /\ chunks_received' = 0
    /\ expected_chunk_id' = 0
    /\ pending_chunks' = {}
    /\ events' = <<>>
    /\ cpc' = "clear"
    /\ disturbed' = (workerPc = "synth" \/ synthesis_queue /= <<>> \/ stop_event)
    /\ UNCHANGED <<synthesis_queue, audio_queue, workerChunk>>
    /\ afterStop' = (stoppedStream >= 1 /\ stopPc = "idle")
    /\ UNCHANGED <<stopPc, stoppedStream, workerCall>>

\* synthesize_streaming: both queues are emptied and the chunks are queued
\* for synthesis with their ids 0..n-1.
StreamEnqueue ==
    /\ cpc = "clear"
    /\ synthesis_queue' = [i \in 1..total_chunks |-> i - 1]
    /\ audio_queue' = <<>>
    /\ cpc' = "loop"
    /\ UNCHANGED <<stop_event, workerPc, workerChunk, sstats, total_chunks,
                   chunks_received, expected_chunk_id, pending_chunks, events,
                   streamCalls, disturbed>>
    /\ UNCHANGED <<stopPc, stoppedStream, workerCall, afterStop>>

\* _synthesis_worker: the loop ends when stop_event is set.
WorkerStop ==
    /\ workerPc = "idle"
    /\ stop_event
    /\ workerPc' = "dead"
    /\ UNCHANGED <<synthesis_queue, audio_queue, stop_event, workerChunk, sstats,
                   cpc, total_chunks, chunks_received, expected_chunk_id,
                   pending_chunks, events, streamCalls, disturbed>>
    /\ UNCHANGED <<stopPc, stoppedStream, workerCall, afterStop>>

\* _synthesis_worker: stop_event is not set at the top of the loop, and the
\* thread goes on to synthesis_queue.get(timeout=0.1).
WorkerCheck ==
    /\ workerPc = "idle"
    /\ ~stop_event
    /\ workerPc' = "get"
    /\ UNCHANGED <<synthesis_queue, audio_queue, stop_event, workerChunk, sstats,
                   cpc, total_chunks, chunks_received, expected_chunk_id,
                   pending_chunks, events, streamCalls, disturbed>>
    /\ UNCHANGED <<stopPc, stoppedStream, workerCall, afterStop>>

\* _synthesis_worker: synthesis_queue.get(timeout=0.1) raises queue.Empty
\* and the loop continues.
WorkerEmpty ==
    /\ workerPc = "get"
    /\ synthesis_queue = <<>>
    /\ workerPc' = "idle"
    /\ UNCHANGED <<synthesis_queue, audio_queue, stop_event, workerChunk, sstats,
                   cpc, total_chunks, chunks_received, expected_chunk_id,
                   pending_chunks, events, streamCalls, disturbed>>
    /\ UNCHANGED <<stopPc, stoppedStream, workerCall, afterStop>>

\* _synthesis_worker takes the next item: None ends the thread; for a chunk
\* it asks the pool for the model, and drops the chunk when the pool gives
\* none or raises (~modelOk).
WorkerGet(modelOk) ==
    /\ workerPc = "get"
    /\ synthesis_queue /= <<>>
    /\ synthesis_queue' = Tail(synthesis_queue)
    /\ IF Head(synthesis_queue) = NoneItem
       THEN workerPc' = "dead" /\ UNCHANGED <<workerChunk, workerCall>>
       ELSE IF modelOk
       THEN /\ workerPc' = "synth"
            /\ workerChunk' = Head(synthesis_queue)
            /\ workerCall' = QueuedBy
       ELSE workerPc' = "idle" /\ UNCHANGED <<workerChunk, workerCall>>
    /\ disturbed' = (disturbed \/ (Head(synthesis_queue) /= NoneItem /\ ~modelOk))
    /\ UNCHANGED <<audio_queue, stop_event, sstats, cpc, total_chunks,
                   chunks_received, expected_chunk_id, pending_chunks, events,
                   streamCalls>>
    /\ UNCHANGED <<stopPc, stoppedStream, afterStop>>

\* _synthesis_worker: the synthesis of the chunk returns (ok), which updates
\* the stats and queues the audio, or raises (~ok), which queues an error
\* marker.
WorkerFinish(ok) ==
    /\ workerPc = "synth"
    /\ workerPc' = "idle"
    /\ workerChunk' = NoneItem
    /\ IF ok
       THEN /\ sstats' = [chunks_processed |-> sstats.chunks_processed + 1,
                          streaming_started |-> TRUE]
            /\ audio_queue' = Append(audio_queue,
                                     [chunk_id |-> workerChunk, kind |-> "audio",
                                      call |-> workerCall])
       ELSE /\ audio_queue' = Append(audio_queue,
                                     [chunk_id |-> workerChunk, kind |-> "error",
                                      call |-> workerCall])
            /\ UNCHANGED sstats
    /\ UNCHANGED <<synthesis_queue, stop_event, cpc, total_chunks,
                   chunks_received, expected_chunk_id, pending_chunks, events,
                   streamCalls, disturbed>>
    /\ workerCall' = 0
    /\ UNCHANGED <<stopPc, stoppedStream, afterStop>>

\* synthesize_streaming after its loop: the completion event is yielded only
\* when stats["chunks_processed"] > 0.
Finished(evs) ==
    IF sstats.chunks_processed > 0
    THEN Append(evs, Event("complete", NoneItem))
    ELSE evs

\* One pass of the generator's loop with a result from the audio queue.  An
\* error result is yielded at once and counted; an audio result that is not
\* the expected one is kept in pending_chunks; the expected one is yielded,
\* and the inner loop then always breaks (expected_chunk_id > chunk_id), so
\* pending_chunks is never read back.
ConsumerGet ==
    /\ cpc = "loop"
    /\ chunks_received < total_chunks
    /\ audio_queue /= <<>>
    /\ audio_queue' = Tail(audio_queue)
    /\ LET r == Head(audio_queue) IN
       IF r.kind = "error"
       THEN /\ events' = Append(events, Event("error", r.chunk_id))
            /\ chunks_received' = chunks_received + 1
            /\ UNCHANGED <<expected_chunk_id, pending_chunks>>
       ELSE IF r.chunk_id /= expected_chunk_id
       THEN /\ pending_chunks' = pending_chunks \cup {r.chunk_id}
            /\ UNCHANGED <<events, chunks_received, expected_chunk_id>>
       ELSE /\ events' = Append(events, Event("audio", r.chunk_id))
            /\ chunks_received' = chunks_received + 1
            /\ expected_chunk_id' = expected_chunk_id + 1
            /\ UNCHANGED pending_chunks
    /\ UNCHANGED <<synthesis_queue, stop_event, workerPc, workerChunk, sstats,
                   cpc, total_chunks, streamCalls, disturbed>>
    /\ UNCHANGED <<stopPc, stoppedStream, workerCall, afterStop>>

\* The loop ends because every chunk was counted.
ConsumerFinish ==
    /\ cpc = "loop"
    /\ chunks_received >= total_chunks
    /\ events' = Finished(events)
    /\ cpc' = "done"
    /\ UNCHANGED <<synthesis_queue, audio_queue, stop_event, workerPc,
                   workerChunk, sstats, total_chunks, chunks_received,
                   expected_chunk_id, pending_chunks, streamCalls, disturbed>>
    /\ UNCHANGED <<stopPc, stoppedStream, workerCall, afterStop>>

\* A get without a timeout: the generator stays in its wait.
ConsumerTimeout_WaitsOn ==
    /\ cpc = "loop"
    /\ chunks_received < total_chunks
    /\ audio_queue = <<>>
    /\ UNCHANGED streamVars

\* audio_queue.get(timeout=5.0) raises queue.Empty: the loop breaks.
ConsumerTimeout ==
    /\ cpc = "loop"
    /\ chunks_received < total_chunks
    /\ audio_queue = <<>>
    /\ events' = Finished(events)
    /\ cpc' = "done"
    /\ disturbed' = (disturbed \/ workerPc = "synth"
                     \/ (workerPc \in {"idle", "get"} /\ synthesis_queue /= <<>>))
    /\ UNCHANGED <<synthesis_queue, audio_queue, stop_event, workerPc,
                   workerChunk, sstats, total_chunks, chunks_received,
                   expected_chunk_id, pending_chunks, streamCalls>>
    /\ UNCHANGED <<stopPc, stoppedStream, workerCall, afterStop>>

\* stop_streaming, called once per worker run, up to the join: the event is
\* set, and when the synthesis thread is alive None is queued for it and the
\* caller joins it.
StopStreaming ==
    /\ ~stop_event
    /\ stopPc = "idle"
    /\ workerPc /= "none"
    /\ stop_event' = TRUE
    /\ stoppedStream' = streamCalls
    /\ IF workerPc \in {"idle", "get", "synth"}
       THEN /\ synthesis_queue' = Append(synthesis_queue, NoneItem)
            /\ stopPc' = "join"
       ELSE UNCHANGED <<synthesis_queue, stopPc>>
    /\ disturbed' = TRUE
    /\ UNCHANGED <<audio_queue, workerPc, workerChunk, sstats, cpc,
                   total_chunks, chunks_received, expected_chunk_id,
                   pending_chunks, events, streamCalls, workerCall, afterStop>>

\* stop_streaming: synthesis_thread.join(timeout=2.0) returns, because the
\* thread has ended or because the two seconds are over (timedOut).
StopJoin(timedOut) ==
    /\ stopPc = "join"
    /\ workerPc = "dead" \/ timedOut
    /\ stopPc' = "idle"
    /\ UNCHANGED <<synthesis_queue, audio_queue, stop_event, workerPc,
                   workerChunk, sstats, cpc, total_chunks, chunks_received,
                   expected_chunk_id, pending_chunks, events, streamCalls,
                   disturbed, stoppedStream, workerCall, afterStop>>

StreamStart  == \E n \in 0..MaxChunks : StreamBegin(n)
StreamTake   == \E modelOk \in BOOLEAN : WorkerGet(modelOk)
StreamSynth  == \E ok \in BOOLEAN : WorkerFinish(ok)
StreamStopJoin == \E timedOut \in BOOLEAN : StopJoin(timedOut)

(***************************************************************************)
(* PerformanceMonitor (performance_monitor.py)                             *)
(***************************************************************************)
\* Model bounds.
SmallHistory == 2     \* a small history_size
LargeHistory == 21    \* a history_size above the percentile threshold
MaxOverflow  == 2     \* completions beyond history_size per behaviour
MaxVariety   == 1     \* inputs per behaviour that differ from the common request
MaxResets    == 1     \* reset_stats calls per behaviour
MaxAfterReset == 2    \* completions per behaviour after a reset_stats

\* Program constant: the number of samples _update_statistics wants before
\* it computes percentiles.
PercentileMinSamples == 20

RequestIds  == {"r1", "r2"}
CommonId    == "r1"
Latencies   == {100, 200}     \* total_latency_ms of a completion
CommonLatency == CHOOSE x \in Latencies : \A y \in Latencies : x <= y
MetricNames == {"was_cached"}

\* A dict with no keys.
EmptyDict == [k \in {} |-> FALSE]

\* d[k] = v for a dict d.
DictPut(d, k, v) == [x \in (DOMAIN d) \cup {k} |-> IF x = k THEN v ELSE d[x]]

\* d.get(k, default)
DictGet(d, k, default) == IF k \in DOMAIN d THEN d[k] ELSE default

\* DictPop that forgets to remove the key.
DictPop_Keeps(d, k) == d

\* d.pop(k): the dict without k.
DictPop(d, k) == [x \in (DOMAIN d) \ {k} |-> d[x]]

InitialStats ==
    [total_requests |-> 0, cache_hits |-> 0, cache_misses |-> 0,
     average_latency_ms |-> <<0, 1>>,      \* a fraction: numerator, denominator
     p95_latency_ms |-> 0, p99_latency_ms |-> 0,
     throughput_requests_per_minute |-> 0]

\* deque.append without maxlen.
DequeAppend_Unbounded(d, x, maxlen) == Append(d, x)

\* deque(maxlen).append(x): a full deque drops its oldest element; a deque
\* of maxlen 0 stays empty.
DequeAppend(d, x, maxlen) ==
    IF maxlen = 0 THEN d
    ELSE IF Len(d) >= maxlen THEN Append(Tail(d), x)
    ELSE Append(d, x)

LatenciesOf(hist) == [i \in 1..Len(hist) |-> hist[i].total_latency_ms]

SortedLatencies(hist) == SortSeq(LatenciesOf(hist), LAMBDA a, b : a < b)

\* The percentile index one place too low.
PercentileIndex_OneBelow(pct, n) == (pct * n) \div 100 - 1

\* int(pct/100 * n), the 0-based index into the sorted latencies.
PercentileIndex(pct, n) == (pct * n) \div 100

\* statistics.mean as an exact fraction.
Mean(s) == <<SumSeq(s), Len(s)>>

\* _update_statistics
UpdateStatistics(st, hist) ==
    IF hist = <<>> THEN st
    ELSE
      LET n      == Len(hist)
          hits   == Cardinality({i \in 1..n : hist[i].was_cached})
          sorted == SortedLatencies(hist)
      IN  [st EXCEPT
             !.total_requests = n,
             !.cache_hits = hits,
             !.cache_misses = n - hits,
             !.average_latency_ms = Mean(LatenciesOf(hist)),
             !.p95_latency_ms =
                 IF n >= PercentileMinSamples
                 THEN sorted[PercentileIndex(95, n) + 1] ELSE @,
             !.p99_latency_ms =
                 IF n >= PercentileMinSamples
                 THEN sorted[PercentileIndex(99, n) + 1] ELSE @,
             !.throughput_requests_per_minute = IF n >= 2 THEN n ELSE @]

InitMonWith(hs) ==
    /\ history_size = hs
    /\ metrics_history = <<>>
    /\ active_requests = EmptyDict
    /\ mstats = InitialStats
    /\ monRet = [op |-> "init", id |-> CommonId, result |-> "None"]
    /\ completedLog = <<>>
    /\ credit = [i \in RequestIds |-> 0]
    /\ overdrawn = FALSE
    /\ peak = 0
    /\ variety = 0
    /\ budget = history_size + MaxOverflow
    /\ resets = 0

InitMon == \E hs \in {0, SmallHistory, LargeHistory} : InitMonWith(hs)

\* The monitor is not in use.
ParkMon == InitMonWith(0)

\* An input other than the common one is counted.
Uncommon(isUncommon) ==
    /\ isUncommon => variety < MaxVariety
    /\ variety' = IF isUncommon THEN variety + 1 ELSE variety

\* start_request(request_id, text, model_name)
StartRequest(id) ==
    /\ Uncommon(id /= CommonId)
    /\ active_requests' = DictPut(active_requests, id, [metrics |-> EmptyDict])
    /\ credit' = [credit EXCEPT ![id] = 1]
    /\ monRet' = [op |-> "start_request", id |-> id, result |-> "None"]
    /\ UNCHANGED <<history_size, metrics_history, mstats, completedLog,
                   overdrawn, peak, budget, resets>>

\* record_metric(request_id, metric_name, value)
RecordMetric(id, name, value) ==
    /\ Uncommon(value)
    /\ active_requests' =
         IF id \in DOMAIN active_requests
         THEN DictPut(active_requests, id,
                      [metrics |-> DictPut(active_requests[id].metrics, name, value)])
         ELSE active_requests
    /\ monRet' = [op |-> "record_metric", id |-> id, result |-> "None"]
    /\ UNCHANGED <<history_size, metrics_history, mstats, completedLog, credit,
                   overdrawn, peak, budget, resets>>

\* complete_request(request_id, ...) for an id that is not being tracked
CompleteUnknown(id) ==
    /\ id \notin DOMAIN active_requests
    /\ monRet' = [op |-> "complete_request", id |-> id, result |-> "None"]
    /\ UNCHANGED <<history_size, metrics_history, active_requests, mstats,
                   completedLog, credit, overdrawn, peak, variety, budget,
                   resets>>

\* complete_request(request_id, ...) for a tracked id; lat is the time that
\* has passed since its start_request
CompleteTracked(id, lat) ==
    /\ id \in DOMAIN active_requests
    /\ budget > 0
    /\ Uncommon(lat /= CommonLatency)
    /\ LET request_data == active_requests[id]
           synthesis_metrics ==
               [request_id |-> id,
                total_latency_ms |-> lat,
                was_cached |-> DictGet(request_data.metrics, "was_cached", FALSE),
                n |-> Len(completedLog) + 1]
           hist == DequeAppend(metrics_history, synthesis_metrics, history_size)
       IN  /\ active_requests' = DictPop(active_requests, id)
           /\ metrics_history' = hist
           /\ mstats' = UpdateStatistics(mstats, hist)
           /\ completedLog' = Append(completedLog, synthesis_metrics)
           /\ peak' = IF Len(hist) > peak THEN Len(hist) ELSE peak
    /\ overdrawn' = (overdrawn \/ credit[id] = 0)
    /\ credit' = [credit EXCEPT ![id] = 0]
    /\ budget' = budget - 1
    /\ monRet' = [op |-> "complete_request", id |-> id, result |-> "metrics"]
    /\ UNCHANGED <<history_size, resets>>

\* reset_stats()
ResetMonitorStats ==
    /\ resets < MaxResets
    /\ resets' = resets + 1
    /\ metrics_history' = <<>>
    /\ active_requests' = EmptyDict
    /\ mstats' = InitialStats
    /\ completedLog' = <<>>
    /\ credit' = [i \in RequestIds |-> 0]
    /\ peak' = 0
    /\ monRet' = [op |-> "reset_stats", id |-> CommonId, result |-> "None"]
    /\ budget' = IF budget < MaxAfterReset THEN budget ELSE MaxAfterReset
    /\ UNCHANGED <<history_size, overdrawn, variety>>

MonStart    == \E id \in RequestIds : StartRequest(id)
MonRecord   == \E id \in RequestIds, name \in MetricNames, value \in BOOLEAN :
                   RecordMetric(id, name, value)
MonCompleteUnknown == \E id \in RequestIds : CompleteUnknown(id)
MonCompleteTracked == \E id \in RequestIds, lat \in Latencies : CompleteTracked(id, lat)

(***************************************************************************)
(* TTSService (tts_service.py) and OptimizedTTSService                     *)
(* (optimized_tts_service.py)                                              *)
(*                                                                         *)
(* The instance is modelled as __init__ leaves its fields.  The caller     *)
(* ("main") makes one call at a time; the synthesis worker thread of       *)
(* TTSService runs _synthesize_internal beside it.  A step of a thread is  *)
(* the code between two accesses to state the threads share.               *)
(***************************************************************************)
\* Model bounds.
MaxSvcCalls     == 3    \* calls made to the service per behaviour
MaxCacheSize    == 1    \* self.max_cache_size
MaxCachedFiles  == 1    \* the file count validate_cache_limits allows
MaxCacheSamples == 3    \* the total cached file size validate_cache_limits allows
MaxFileSamples  == 2    \* the file size validate_file_size allows
OptCacheSamples == 2    \* OptimizedTTSService: the longest audio its memory cache has room for

\* Program constants.
SvcHistorySize    == 1000   \* init_performance_monitor(history_size=1000)
EstimateOverhead  == 64     \* _estimate_size: audio_data.nbytes + 64

\* The models the callers name: two of VOICE_MODELS and one that is not.
SvcModels == {"default", "fast"}
SvcModelNames == SvcModels \cup {"bogus"}

\* The texts the callers pass.  "" is rejected by validate_text; the audio of
\* "huge" is larger than validate_file_size allows and than the memory
\* cache of the optimized service has room for.
SvcTexts == {"hello", "world", "huge", ""}

\* The number of samples the engine produces for a text.
Samples(t) ==
    CASE t = "world" -> 2
      [] t = "huge"  -> MaxFileSamples + OptCacheSamples
      [] OTHER       -> 1

\* The audio soundfile.read returns for the file the engine wrote.
AudioOf(t) == Buf("float64", [i \in 1..Samples(t) |-> SubSteps])

TextNo(t) ==
    CASE t = "hello" -> 0
      [] t = "world" -> 1
      [] t = "huge"  -> 2
      [] OTHER       -> 3

ModelNo(m) == IF m = "default" THEN 0 ELSE IF m = "fast" THEN 1 ELSE 2

\* Mutant of CacheKey: the model is left out of the key.
CacheKey_TextOnly(t, m) == 1 + TextNo(t) * 3

\* _get_cache_key: the first 16 hex digits of a digest of "<model>:<text>".
\* Distinct (model, text) pairs are taken to have distinct digests.
CacheKey(t, m) == 1 + TextNo(t) * 3 + ModelNo(m)

AllCacheKeys == {CacheKey(t, m) : t \in SvcTexts, m \in SvcModelNames}

\* The text a key stands for.
KeyText(k) == CHOOSE t \in SvcTexts : TextNo(t) = (k - 1) \div 3

\* ---- the module-level tracking functions of performance_monitor.py, as
\* ---- functions of the monitor m = [a: active_requests, h: metrics_history,
\* ---- s: stats]
MonitorNow == [a |-> active_requests, h |-> metrics_history, s |-> mstats]

\* start_request_tracking
Started(m, id) == [m EXCEPT !.a = DictPut(@, id, [metrics |-> EmptyDict])]

\* record_metric
Recorded(m, id, name, value) ==
    IF id \in DOMAIN m.a
    THEN [m EXCEPT !.a = DictPut(@, id, [metrics |-> DictPut(m.a[id].metrics, name, value)])]
    ELSE m

\* complete_request_tracking
Completed(m, id) ==
    IF id \notin DOMAIN m.a THEN m
    ELSE LET e == [request_id |-> id,
                   total_latency_ms |-> CommonLatency,
                   was_cached |-> DictGet(m.a[id].metrics, "was_cached", FALSE),
                   n |-> Len(m.h) + 1]
             hist == DequeAppend(m.h, e, history_size)
         IN [a |-> DictPop(m.a, id), h |-> hist, s |-> UpdateStatistics(m.s, hist)]

\* The monitor after the step is m.
MonitorBecomes(m) ==
    /\ active_requests' = m.a
    /\ metrics_history' = m.h
    /\ mstats' = m.s
    /\ UNCHANGED <<history_size, monRet, completedLog, credit, overdrawn, peak,
                   variety, budget, resets>>

\* ---- the file cache
SeqKeys(s) == {s[i] : i \in 1..Len(s)}

Without(s, ks) == SelectSeq(s, LAMBDA x : x \notin ks)

\* A file is written: it becomes the newest one.
Written(files, k) == Append(Without(files, {k}), k)

\* dict[k] = v: a new key goes to the end.
Indexed(index, k) == IF k \in SeqKeys(index) THEN index ELSE Append(index, k)

\* The total size of the indexed files that exist.
IndexedSamples(index, files) ==
    SumSeq([i \in 1..Len(index) |->
              IF index[i] \in SeqKeys(files) THEN Samples(KeyText(index[i])) ELSE 0])

\* _periodic_cleanup on [index, files]: entries whose file is gone are
\* dropped, then the oldest entries beyond max_cache_size with their files.
PeriodicCleanup(c) ==
    LET kept   == SelectSeq(c.index, LAMBDA k : k \in SeqKeys(c.files))
        excess == IF Len(kept) > MaxCacheSize THEN Len(kept) - MaxCacheSize ELSE 0
        gone   == {kept[i] : i \in 1..excess}
    IN [index |-> SubSeq(kept, excess + 1, Len(kept)),
        files |-> Without(c.files, gone)]

\* _cleanup_old_cache_files on [index, files]: the older half of the files
\* is removed, with the index entries that point to them.
CleanupOldCacheFiles(c) ==
    LET gone == {c.files[i] : i \in 1..(Len(c.files) \div 2)}
    IN [index |-> Without(c.index, gone), files |-> Without(c.files, gone)]

\* validate_cache_limits
WithinCacheLimits(c) ==
    /\ Len(c.index) <= MaxCachedFiles
    /\ IndexedSamples(c.index, c.files) <= MaxCacheSamples

\* The head of _synthesize_internal: the cleanup when it is due and the
\* check of the limits.
Housekeeping(c, cleanupDue) ==
    LET c1 == IF cleanupDue THEN PeriodicCleanup(c) ELSE c
    IN IF WithinCacheLimits(c1) THEN c1 ELSE CleanupOldCacheFiles(c1)

\* ---- the instance
SvcThreads == {"main", "worker"}

NoJob == [text |-> "", id |-> 0, key |-> 0, model |-> "", async |-> FALSE,
          wasFresh |-> FALSE]

NoSvcRet == [op |-> "none", text |-> "", model |-> "", async |-> FALSE,
             result |-> "None", served |-> "none", key |-> 0,
             wasFresh |-> FALSE, engine |-> FALSE]

InitSvcWith(v) ==
    /\ variant = v
    /\ current_model = "default"
    /\ is_ready = TRUE
    /\ audio_cache = <<>>
    /\ cache_files = <<>>
    /\ memory_cache = <<>>
    /\ svc_queue = <<>>
    /\ tpc = [t \in SvcThreads |-> "idle"]
    /\ job = [t \in SvcThreads |-> NoJob]
    /\ svcRet = NoSvcRet
    /\ fresh = {}
    /\ entryModel = [k \in AllCacheKeys |-> "none"]
    /\ svcCalls = 0

\* No service is in use.
ParkSvc == InitSvcWith("none")

\* The state the two constructors leave: TTSService with the compressed
\* cache of init_memory_cache(use_compression=True) and the monitor of
\* init_performance_monitor(history_size=1000); OptimizedTTSService with
\* its own memory cache and no monitor.
InitSvc ==
    \E v \in {"tts", "optimized"} :
        /\ InitSvcWith(v)
        /\ InitCache
        /\ compressed = (v = "tts")
        /\ InitMonWith(IF v = "tts" THEN SvcHistorySize ELSE 0)

\* The parts of the cache object no service call changes.
SvcFrame == UNCHANGED <<compressed, ops, nkeys>>

CacheIdle == UNCHANGED <<cache, stats, touch, ret>>

\* The keys of f without those whose entry leaves the memory cache in the step.
FreshKept(f) ==
    f \ (IF variant = "tts" THEN CacheKeys(cache) \ CacheKeys(cache')
                            ELSE SeqKeys(memory_cache) \ SeqKeys(memory_cache'))

\* _synthesize_internal of thread t returns.  For the caller the rest of
\* synthesize follows: the request is completed when the synthesis was a
\* success, and the path or None is returned.  The worker hands the result
\* to the callback.
InternalReturns(t, success, served, engine, m) ==
    /\ tpc' = [tpc EXCEPT ![t] = "idle"]
    /\ job' = [job EXCEPT ![t] = NoJob]
    /\ IF t = "main"
       THEN /\ svcRet' = [op |-> "synthesize", text |-> job[t].text,
                          model |-> current_model, async |-> FALSE,
                          result |-> IF success THEN "path" ELSE "None",
                          served |-> served, key |-> job[t].key,
                          wasFresh |-> job[t].wasFresh, engine |-> engine]
            /\ MonitorBecomes(IF success THEN Completed(m, job[t].id) ELSE m)
            /\ fresh' = FreshKept(IF success THEN fresh \cup {job[t].key} ELSE fresh)
       ELSE /\ UNCHANGED svcRet
            /\ MonitorBecomes(m)
            /\ fresh' = FreshKept(fresh)

\* cache_audio(cache_key, audio_data, sample_rate) of the audio of thread t's text
CacheAudio(t, key) ==
    /\ PutStored(key, AudioOf(job[t].text), CompressAudio(AudioOf(job[t].text)), 22050)
    /\ entryModel' = [entryModel EXCEPT ![key] = job[t].model]

\* TTSService.synthesize(text, async_mode=async) up to the point where it
\* returns or enters _synthesize_internal.
SvcSynthesize(t, async) ==
    /\ variant = "tts"
    /\ tpc["main"] = "idle"
    /\ svcCalls < MaxSvcCalls
    /\ svcCalls' = svcCalls + 1
    /\ SvcFrame
    /\ UNCHANGED <<variant, current_model, is_ready, audio_cache, cache_files,
                   memory_cache, entryModel>>
    /\ LET id   == svcCalls + 1
           m1   == Started(MonitorNow, id)
           key  == CacheKey(t, current_model)
           call == [NoSvcRet EXCEPT !.op = "synthesize", !.text = t,
                                    !.model = current_model, !.async = async,
                                    !.key = key, !.wasFresh = (key \in fresh)]
       IN
       IF ~is_ready
       THEN /\ svcRet' = [call EXCEPT !.result = "RuntimeError"]
            /\ MonitorBecomes(MonitorNow)
            /\ CacheIdle
            /\ UNCHANGED <<svc_queue, tpc, job, fresh>>
       ELSE IF t = ""
       THEN /\ svcRet' = [call EXCEPT !.result = "ValueError"]
            /\ MonitorBecomes(Completed(m1, id))
            /\ CacheIdle
            /\ UNCHANGED <<svc_queue, tpc, job, fresh>>
       ELSE /\ GetStored(key)
            /\ IF key \in CacheKeys(cache)
               THEN /\ svcRet' = [call EXCEPT !.result = "path", !.served = "memory"]
                    /\ MonitorBecomes(Completed(Recorded(m1, id, "was_cached", TRUE), id))
                    /\ UNCHANGED <<svc_queue, tpc, job, fresh>>
               ELSE IF async
               THEN /\ svc_queue' = Append(svc_queue, [text |-> t, id |-> id])
                    /\ svcRet' = [call EXCEPT !.served = "queued"]
                    /\ MonitorBecomes(Recorded(m1, id, "was_cached", FALSE))
                    /\ UNCHANGED <<tpc, job, fresh>>
               ELSE /\ tpc' = [tpc EXCEPT !["main"] = "lookup"]
                    /\ job' = [job EXCEPT !["main"] =
                                 [text |-> t, id |-> id, key |-> key,
                                  model |-> current_model, async |-> FALSE,
                                  wasFresh |-> (key \in fresh)]]
                    /\ MonitorBecomes(Recorded(m1, id, "was_cached", FALSE))
                    /\ UNCHANGED <<svc_queue, svcRet, fresh>>

\* _synthesis_worker: the next request is taken from the queue.
SvcWorkerTake ==
    /\ variant = "tts"
    /\ tpc["worker"] = "idle"
    /\ svc_queue /= <<>>
    /\ svc_queue' = Tail(svc_queue)
    /\ tpc' = [tpc EXCEPT !["worker"] = "lookup"]
    /\ job' = [job EXCEPT !["worker"] =
                 [NoJob EXCEPT !.text = Head(svc_queue).text,
                               !.id = Head(svc_queue).id, !.async = TRUE]]
    /\ SvcFrame /\ CacheIdle /\ MonitorBecomes(MonitorNow)
    /\ UNCHANGED <<variant, current_model, is_ready, audio_cache, cache_files,
                   memory_cache, svcRet, fresh, entryModel, svcCalls>>

\* _synthesize_internal, to the lookup in the memory cache: the cleanup when
\* it is due, the check of the limits, the key and get_cached_audio.
SvcLookup(t, cleanupDue) ==
    /\ tpc[t] = "lookup"
    /\ LET c   == Housekeeping([index |-> audio_cache, files |-> cache_files], cleanupDue)
           key == CacheKey(job[t].text, current_model)
       IN /\ audio_cache' = c.index
          /\ cache_files' = c.files
          /\ GetStored(key)
          /\ IF key \in CacheKeys(cache)
             THEN InternalReturns(t, TRUE, "memory", FALSE,
                         Completed(Recorded(MonitorNow, job[t].id, "was_cached", TRUE),
                                   job[t].id))
             ELSE /\ tpc' = [tpc EXCEPT ![t] = "file"]
                  /\ job' = [job EXCEPT ![t].key = key, ![t].model = current_model]
                  /\ MonitorBecomes(MonitorNow)
                  /\ fresh' = FreshKept(fresh)
                  /\ UNCHANGED svcRet
    /\ SvcFrame
    /\ UNCHANGED <<variant, current_model, is_ready, memory_cache, svc_queue,
                   entryModel, svcCalls>>

\* _synthesize_internal: the file cache as the fallback; a hit is copied to
\* the output and loaded into the memory cache.
SvcFileCache(t) ==
    /\ tpc[t] = "file"
    /\ IF job[t].key \in SeqKeys(audio_cache) /\ job[t].key \in SeqKeys(cache_files)
       THEN /\ CacheAudio(t, job[t].key)
            /\ InternalReturns(t, TRUE, "file", FALSE, MonitorNow)
       ELSE /\ tpc' = [tpc EXCEPT ![t] = "synth"]
            /\ CacheIdle
            /\ MonitorBecomes(MonitorNow)
            /\ UNCHANGED <<job, svcRet, fresh, entryModel>>
    /\ SvcFrame
    /\ UNCHANGED <<variant, current_model, is_ready, audio_cache, cache_files,
                   memory_cache, svc_queue, svcCalls>>

\* _synthesize_internal: the model from the pool, the engine, the check of
\* the output's size, the memory cache and the check of the index's length.
SvcSynth(t, poolOk, engineOk) ==
    /\ tpc[t] = "synth"
    /\ IF ~poolOk \/ ~engineOk \/ Samples(job[t].text) > MaxFileSamples
       THEN /\ CacheIdle
            /\ InternalReturns(t, FALSE, "failed", poolOk, MonitorNow)
            /\ UNCHANGED entryModel
       ELSE /\ CacheAudio(t, job[t].key)
            /\ IF Len(audio_cache) < MaxCacheSize
               THEN /\ tpc' = [tpc EXCEPT ![t] = "insert"]
                    /\ MonitorBecomes(MonitorNow)
                    /\ fresh' = FreshKept(fresh)
                    /\ UNCHANGED <<job, svcRet>>
               ELSE InternalReturns(t, TRUE, "engine", TRUE, MonitorNow)
    /\ SvcFrame
    /\ UNCHANGED <<variant, current_model, is_ready, audio_cache, cache_files,
                   memory_cache, svc_queue, svcCalls>>

\* _synthesize_internal: the output is copied to the cache directory and
\* the copy is entered into the index.
SvcInsert(t) ==
    /\ tpc[t] = "insert"
    /\ cache_files' = Written(cache_files, job[t].key)
    /\ audio_cache' = Indexed(audio_cache, job[t].key)
    /\ CacheIdle
    /\ InternalReturns(t, TRUE, "engine", TRUE, MonitorNow)
    /\ SvcFrame
    /\ UNCHANGED <<variant, current_model, is_ready, memory_cache, svc_queue,
                   entryModel, svcCalls>>

\* TTSService.switch_model(name)
SvcSwitchModel(name, poolOk) ==
    /\ variant = "tts"
    /\ tpc["main"] = "idle"
    /\ svcCalls < MaxSvcCalls
    /\ svcCalls' = svcCalls + 1
    /\ LET call == [NoSvcRet EXCEPT !.op = "switch_model", !.model = name,
                                    !.text = current_model]
       IN
       IF name \notin SvcModels
       THEN /\ svcRet' = [call EXCEPT !.result = "ValueError"]
            /\ UNCHANGED <<current_model, is_ready, audio_cache, fresh>>
       ELSE IF name = current_model
       THEN /\ svcRet' = [call EXCEPT !.result = "same"]
            /\ UNCHANGED <<current_model, is_ready, audio_cache, fresh>>
       ELSE IF ~poolOk
       THEN /\ svcRet' = [call EXCEPT !.result = "RuntimeError"]
            /\ is_ready' = FALSE
            /\ fresh' = {}
            /\ UNCHANGED <<current_model, audio_cache>>
       ELSE /\ svcRet' = [call EXCEPT !.result = "switched"]
            /\ current_model' = name
            /\ is_ready' = TRUE
            /\ audio_cache' = <<>>
            /\ fresh' = {}
    /\ SvcFrame /\ CacheIdle /\ MonitorBecomes(MonitorNow)
    /\ UNCHANGED <<variant, cache_files, memory_cache, svc_queue, tpc, job, entryModel>>

\* TTSService.clear_cache()
SvcClearCache ==
    /\ variant = "tts"
    /\ tpc["main"] = "idle"
    /\ svcCalls < MaxSvcCalls
    /\ svcCalls' = svcCalls + 1
    /\ ClearStored
    /\ cache_files' = Without(cache_files, SeqKeys(audio_cache))
    /\ audio_cache' = <<>>
    /\ fresh' = {}
    /\ svcRet' = [NoSvcRet EXCEPT !.op = "clear_cache"]
    /\ SvcFrame /\ MonitorBecomes(MonitorNow)
    /\ UNCHANGED <<variant, current_model, is_ready, memory_cache, svc_queue, tpc,
                   job, entryModel>>

\* TTSService.synthesize_streaming(text), iterated by the caller until the
\* generator is exhausted or raises, or abandoned after a chunk.
StreamOutcomes == {"exhausted", "raised", "abandoned"}

SvcSynthesizeStreaming(t, outcome) ==
    /\ variant = "tts"
    /\ tpc["main"] = "idle"
    /\ svcCalls < MaxSvcCalls
    /\ svcCalls' = svcCalls + 1
    /\ LET id   == svcCalls + 1
           m1   == Started(MonitorNow, id)
           call == [NoSvcRet EXCEPT !.op = "synthesize_streaming", !.text = t,
                                    !.model = current_model]
       IN
       IF ~is_ready
       THEN /\ svcRet' = [call EXCEPT !.result = "RuntimeError"]
            /\ MonitorBecomes(MonitorNow)
       ELSE IF t = ""
       THEN /\ svcRet' = [call EXCEPT !.result = "ValueError"]
            /\ MonitorBecomes(Completed(m1, id))
       ELSE /\ svcRet' = [call EXCEPT !.result = outcome]
            /\ MonitorBecomes(IF outcome = "abandoned" THEN m1 ELSE Completed(m1, id))
    /\ SvcFrame /\ CacheIdle
    /\ UNCHANGED <<variant, current_model, is_ready, audio_cache, cache_files,
                   memory_cache, svc_queue, tpc, job, fresh, entryModel>>

\* ---- OptimizedTTSService and its MemoryAudioCache
\* _estimate_size of an audio of float64 samples, as soundfile.read returns it
EstimateSize(samples) == samples * ItemSize("float64") + EstimateOverhead

\* MemoryAudioCache.max_size_bytes
OptMaxSizeBytes == EstimateSize(OptCacheSamples)

\* MemoryAudioCache.current_size
OptCurrentSize(c) == SumSeq([i \in 1..Len(c) |-> EstimateSize(Samples(KeyText(c[i])))])

\* MemoryAudioCache._evict_lru
RECURSIVE OptCacheEvictLru(_)
OptCacheEvictLru(c) ==
    IF OptCurrentSize(c) > OptMaxSizeBytes /\ c /= <<>>
    THEN OptCacheEvictLru(Tail(c))
    ELSE c

\* Mutant of OptCachePut: nothing is stored.
OptCachePut_StoresNothing(c, key) == c

\* MemoryAudioCache.put
OptCachePut(c, key) ==
    IF EstimateSize(Samples(KeyText(key))) > OptMaxSizeBytes THEN c
    ELSE OptCacheEvictLru(Touched(c, key))

\* OptimizedTTSService.synthesize(text)
OptSynthesize(t, engineOk) ==
    /\ variant = "optimized"
    /\ svcCalls < MaxSvcCalls
    /\ svcCalls' = svcCalls + 1
    /\ LET key  == CacheKey(t, current_model)
           call == [NoSvcRet EXCEPT !.op = "synthesize", !.text = t,
                                    !.model = current_model, !.key = key,
                                    !.wasFresh = (key \in fresh)]
       IN
       IF ~is_ready
       THEN /\ svcRet' = [call EXCEPT !.result = "RuntimeError"]
            /\ UNCHANGED <<memory_cache, fresh, entryModel>>
       ELSE IF key \in SeqKeys(memory_cache)
       THEN /\ svcRet' = [call EXCEPT !.result = "path", !.served = "memory"]
            /\ memory_cache' = Touched(memory_cache, key)
            /\ UNCHANGED <<fresh, entryModel>>
       ELSE IF ~engineOk
       THEN /\ svcRet' = [call EXCEPT !.served = "failed", !.engine = TRUE]
            /\ UNCHANGED <<memory_cache, fresh, entryModel>>
       ELSE /\ svcRet' = [call EXCEPT !.result = "path", !.served = "engine",
                                      !.engine = TRUE]
            /\ memory_cache' = OptCachePut(memory_cache, key)
            /\ entryModel' = [entryModel EXCEPT ![key] = current_model]
            /\ fresh' = FreshKept(fresh \cup {key})
    /\ SvcFrame /\ CacheIdle /\ MonitorBecomes(MonitorNow)
    /\ UNCHANGED <<variant, current_model, is_ready, audio_cache, cache_files,
                   svc_queue, tpc, job>>

\* OptimizedTTSService.switch_model(name)
OptSwitchModel(name, poolOk) ==
    /\ variant = "optimized"
    /\ svcCalls < MaxSvcCalls
    /\ svcCalls' = svcCalls + 1
    /\ LET call == [NoSvcRet EXCEPT !.op = "switch_model", !.model = name,
                                    !.text = current_model]
       IN
       IF name = current_model
       THEN /\ svcRet' = [call EXCEPT !.result = "same"]
            /\ UNCHANGED <<current_model, is_ready, memory_cache, fresh>>
       ELSE IF ~poolOk \/ name \notin SvcModels
       THEN /\ svcRet' = [call EXCEPT !.result = "RuntimeError"]
            /\ is_ready' = FALSE
            /\ fresh' = {}
            /\ UNCHANGED <<current_model, memory_cache>>
       ELSE /\ svcRet' = [call EXCEPT !.result = "switched"]
            /\ current_model' = name
            /\ is_ready' = TRUE
            /\ memory_cache' = <<>>
            /\ fresh' = {}
    /\ SvcFrame /\ CacheIdle /\ MonitorBecomes(MonitorNow)
    /\ UNCHANGED <<variant, audio_cache, cache_files, svc_queue, tpc, job, entryModel>>

\* ---- the calls and steps with their inputs
SvcCallSynthesize == \E t \in SvcTexts, async \in BOOLEAN : SvcSynthesize(t, async)
SvcCallSwitch     == \E name \in SvcModelNames, poolOk \in BOOLEAN : SvcSwitchModel(name, poolOk)
SvcCallStreaming  == \E t \in SvcTexts, outcome \in StreamOutcomes :
                         SvcSynthesizeStreaming(t, outcome)
SvcStepLookup     == \E t \in SvcThreads, cleanupDue \in BOOLEAN : SvcLookup(t, cleanupDue)
SvcStepFileCache  == \E t \in SvcThreads : SvcFileCache(t)
SvcStepSynth      == \E t \in SvcThreads, poolOk \in BOOLEAN, engineOk \in BOOLEAN :
                         SvcSynth(t, poolOk, engineOk)
SvcStepInsert     == \E t \in SvcThreads : SvcInsert(t)
OptCallSynthesize == \E t \in SvcTexts, engineOk \in BOOLEAN : OptSynthesize(t, engineOk)
OptCallSwitch     == \E name \in SvcModelNames, poolOk \in BOOLEAN : OptSwitchModel(name, poolOk)

(***************************************************************************)
(* The singletons: the module-level functions of model_pool.py and         *)
(* memory_cache.py                                                         *)
(*                                                                         *)
(* Each singleton is initialised once, used, and shut down; the calls of   *)
(* the module-level functions come at any time of that life.               *)
(***************************************************************************)
\* Model bound: calls of the module-level functions per behaviour.
MaxLifeCalls == 4

\* The inputs of the calls.
LifeModels == {"default", "fast"}
LifeKeys   == {1}
LifeAudio  == Buf("float64", <<SubSteps>>)

NoLifeRet == [op |-> "none", phase |-> "uninit", outcome |-> "none"]

InitLife ==
    /\ g_model_pool = "None"
    /\ g_memory_cache = "None"
    /\ poolPhase = "uninit"
    /\ cachePhase = "uninit"
    /\ lifeRet = NoLifeRet
    /\ lifeCalls = 0

\* No module-level function is in use.
ParkLife == InitLife

\* A module-level function is called in the given phase of its singleton
\* and the call ends as outcome says: "RuntimeError" when get_model_pool /
\* get_memory_cache found no instance, "called" when the instance's method
\* was called.
LifeCall(op, phase, outcome) ==
    /\ lifeCalls < MaxLifeCalls
    /\ lifeCalls' = lifeCalls + 1
    /\ lifeRet' = [op |-> op, phase |-> phase, outcome |-> outcome]

\* init_model_pool(max_memory_mb, preload_models)
InitModelPool(list) ==
    /\ poolPhase = "uninit"
    /\ g_model_pool' = "pool"
    /\ poolPhase' = "live"
    /\ preload' = list
    /\ LifeCall("init_model_pool", poolPhase, "None")
    /\ UNCHANGED <<models, current_memory_mb, meta, accessOrder, loading_lock,
                   loading_queue, stop_loading, pc, arg, res, how, charged,
                   beforeLoad, lateCall, calls>>
    /\ UNCHANGED <<g_memory_cache, cachePhase, cacheVars>>

\* get_model(model_name): get_model_pool().get_model(model_name)
LifeGetModel(t, n) ==
    /\ IF g_model_pool = "None"
       THEN /\ LifeCall("get_model", poolPhase, "RuntimeError")
            /\ UNCHANGED poolVars
       ELSE /\ GetModelCall(t, n)
            /\ LifeCall("get_model", poolPhase, "called")
    /\ UNCHANGED <<g_model_pool, g_memory_cache, poolPhase, cachePhase, cacheVars>>

\* preload_models(): get_model_pool().preload_models().  The attribute
\* preload_models of an instance is the list its constructor stored, so with
\* an instance the call raises TypeError.
LifePreloadModels ==
    /\ LifeCall("preload_models", poolPhase,
                IF g_model_pool = "None" THEN "RuntimeError" ELSE "TypeError")
    /\ UNCHANGED <<g_model_pool, g_memory_cache, poolPhase, cachePhase, poolVars,
                   cacheVars>>

\* shutdown_model_pool(), to the point where the instance's shutdown has
\* begun; without an instance the call returns and nothing happens.
ShutdownModelPool ==
    /\ IF g_model_pool = "None"
       THEN /\ LifeCall("shutdown_model_pool", poolPhase, "None")
            /\ UNCHANGED poolVars
       ELSE /\ ShutdownBegin
            /\ LifeCall("shutdown_model_pool", poolPhase, "called")
    /\ UNCHANGED <<g_model_pool, g_memory_cache, poolPhase, cachePhase, cacheVars>>

\* shutdown_model_pool(): the instance's shutdown has returned and
\* _model_pool is set to None.
ShutdownModelPoolEnd ==
    /\ g_model_pool = "pool"
    /\ pc[Closer] = "done"
    /\ g_model_pool' = "None"
    /\ poolPhase' = "down"
    /\ UNCHANGED <<g_memory_cache, cachePhase, lifeRet, lifeCalls, poolVars, cacheVars>>

\* init_memory_cache(max_size_mb, max_entries, use_compression)
InitMemoryCache(use_compression) ==
    /\ cachePhase = "uninit"
    /\ g_memory_cache' = "cache"
    /\ cachePhase' = "live"
    /\ compressed' = use_compression
    /\ LifeCall("init_memory_cache", cachePhase, "None")
    /\ UNCHANGED <<cache, stats, ret, touch, ops, nkeys>>
    /\ UNCHANGED <<g_model_pool, poolPhase, poolVars>>

\* cache_audio(key, audio_data, sample_rate): get_memory_cache().put(...)
LifeCacheAudio(k) ==
    /\ IF g_memory_cache = "None"
       THEN /\ LifeCall("cache_audio", cachePhase, "RuntimeError")
            /\ UNCHANGED cacheVars
       ELSE /\ Put(k, LifeAudio, 22050) /\ UseKey(k)
            /\ LifeCall("cache_audio", cachePhase, "called")
    /\ UNCHANGED <<g_model_pool, g_memory_cache, poolPhase, cachePhase, poolVars>>

\* get_cached_audio(key): get_memory_cache().get(key)
LifeGetCachedAudio(k) ==
    /\ IF g_memory_cache = "None"
       THEN /\ LifeCall("get_cached_audio", cachePhase, "RuntimeError")
            /\ UNCHANGED cacheVars
       ELSE /\ Get(k) /\ UseKey(k)
            /\ LifeCall("get_cached_audio", cachePhase, "called")
    /\ UNCHANGED <<g_model_pool, g_memory_cache, poolPhase, cachePhase, poolVars>>

\* clear_cache(): get_memory_cache().clear()
LifeClearCache ==
    /\ IF g_memory_cache = "None"
       THEN /\ LifeCall("clear_cache", cachePhase, "RuntimeError")
            /\ UNCHANGED cacheVars
       ELSE /\ Clear /\ UNCHANGED nkeys
            /\ LifeCall("clear_cache", cachePhase, "called")
    /\ UNCHANGED <<g_model_pool, g_memory_cache, poolPhase, cachePhase, poolVars>>

\* shutdown_memory_cache(): the instance is cleared and _memory_cache is set
\* to None; without an instance the call returns and nothing happens.
ShutdownMemoryCache ==
    /\ IF g_memory_cache = "None"
       THEN /\ LifeCall("shutdown_memory_cache", cachePhase, "None")
            /\ UNCHANGED <<cacheVars, g_memory_cache, cachePhase>>
       ELSE /\ Clear /\ UNCHANGED nkeys
            /\ g_memory_cache' = "None"
            /\ cachePhase' = "down"
            /\ LifeCall("shutdown_memory_cache", cachePhase, "called")
    /\ UNCHANGED <<g_model_pool, poolPhase, poolVars>>

LifeInitPool     == \E list \in PreloadLists : InitModelPool(list)
LifeCallGetModel == \E t \in Callers, n \in LifeModels : LifeGetModel(t, n)
LifeInitCache    == \E c \in BOOLEAN : InitMemoryCache(c)
LifeCallCacheAudio == \E k \in LifeKeys : LifeCacheAudio(k)
LifeCallGetCached  == \E k \in LifeKeys : LifeGetCachedAudio(k)

(***************************************************************************)
(* Specifications                                                          *)
(***************************************************************************)
\* The cache is not in use.
ParkCache == InitCache /\ compressed = FALSE

\* ---- the cache alone ----
InitCacheOnly == InitCache /\ ParkChunk /\ ParkPool /\ ParkOpt /\ ParkStream /\ ParkMon /\ ParkSvc /\ ParkLife

NextCache ==
    \/ CachePut /\ UNCHANGED <<chunkVars, poolVars, optVars, streamVars, monVars, svcVars, lifeVars>>
    \/ CacheGet /\ UNCHANGED <<chunkVars, poolVars, optVars, streamVars, monVars, svcVars, lifeVars>>
    \/ CacheHas /\ UNCHANGED <<chunkVars, poolVars, optVars, streamVars, monVars, svcVars, lifeVars>>
    \/ CacheDelete /\ UNCHANGED <<chunkVars, poolVars, optVars, streamVars, monVars, svcVars, lifeVars>>
    \/ CacheClear /\ UNCHANGED <<chunkVars, poolVars, optVars, streamVars, monVars, svcVars, lifeVars>>

SpecCache == InitCacheOnly /\ [][NextCache]_vars

\* ---- the chunker alone ----
InitChunkOnly == InitChunk /\ ParkCache /\ ParkPool /\ ParkOpt /\ ParkStream /\ ParkMon /\ ParkSvc /\ ParkLife

NextChunk == ChunkText /\ UNCHANGED <<cacheVars, poolVars, optVars, streamVars, monVars, svcVars, lifeVars>>

SpecChunk == InitChunkOnly /\ [][NextChunk]_vars

\* ---- the model pool and its threads ----
InitPoolOnly == InitPool /\ ParkCache /\ ParkChunk /\ ParkOpt /\ ParkStream /\ ParkMon /\ ParkSvc /\ ParkLife

NextPool ==
    \/ PoolGetModel /\ UNCHANGED <<cacheVars, chunkVars, optVars, streamVars, monVars, svcVars, lifeVars>>
    \/ PoolBump /\ UNCHANGED <<cacheVars, chunkVars, optVars, streamVars, monVars, svcVars, lifeVars>>
    \/ PoolLoadBegin /\ UNCHANGED <<cacheVars, chunkVars, optVars, streamVars, monVars, svcVars, lifeVars>>
    \/ PoolLoadEnd /\ UNCHANGED <<cacheVars, chunkVars, optVars, streamVars, monVars, svcVars, lifeVars>>
    \/ WorkerLoop /\ UNCHANGED <<cacheVars, chunkVars, optVars, streamVars, monVars, svcVars, lifeVars>>
    \/ PoolAsyncLoad /\ UNCHANGED <<cacheVars, chunkVars, optVars, streamVars, monVars, svcVars, lifeVars>>
    \/ PoolUnload /\ UNCHANGED <<cacheVars, chunkVars, optVars, streamVars, monVars, svcVars, lifeVars>>
    \/ ShutdownBegin /\ UNCHANGED <<cacheVars, chunkVars, optVars, streamVars, monVars, svcVars, lifeVars>>
    \/ ShutdownJoin /\ UNCHANGED <<cacheVars, chunkVars, optVars, streamVars, monVars, svcVars, lifeVars>>
    \/ ShutdownClear /\ UNCHANGED <<cacheVars, chunkVars, optVars, streamVars, monVars, svcVars, lifeVars>>

SpecPool == InitPoolOnly /\ [][NextPool]_vars

\* ---- the model pool of the optimized service ----
InitOptOnly == InitOpt /\ ParkCache /\ ParkChunk /\ ParkPool /\ ParkStream /\ ParkMon /\ ParkSvc /\ ParkLife

NextOpt ==
    \/ OptGet /\ UNCHANGED <<cacheVars, chunkVars, poolVars, streamVars, monVars, svcVars, lifeVars>>
    \/ OptPre /\ UNCHANGED <<cacheVars, chunkVars, poolVars, streamVars, monVars, svcVars, lifeVars>>

SpecOptPool == InitOptOnly /\ [][NextOpt]_vars

\* ---- streaming synthesis: the generator, the synthesis thread, stop ----
InitStreamOnly == InitStream /\ ParkCache /\ ParkChunk /\ ParkPool /\ ParkOpt /\ ParkMon /\ ParkSvc /\ ParkLife

NextStream ==
    \/ StreamStart /\ UNCHANGED <<cacheVars, chunkVars, poolVars, optVars, monVars, svcVars, lifeVars>>
    \/ StreamEnqueue /\ UNCHANGED <<cacheVars, chunkVars, poolVars, optVars, monVars, svcVars, lifeVars>>
    \/ WorkerCheck /\ UNCHANGED <<cacheVars, chunkVars, poolVars, optVars, monVars, svcVars, lifeVars>>
    \/ WorkerEmpty /\ UNCHANGED <<cacheVars, chunkVars, poolVars, optVars, monVars, svcVars, lifeVars>>
    \/ WorkerStop /\ UNCHANGED <<cacheVars, chunkVars, poolVars, optVars, monVars, svcVars, lifeVars>>
    \/ StreamTake /\ UNCHANGED <<cacheVars, chunkVars, poolVars, optVars, monVars, svcVars, lifeVars>>
    \/ StreamSynth /\ UNCHANGED <<cacheVars, chunkVars, poolVars, optVars, monVars, svcVars, lifeVars>>
    \/ ConsumerGet /\ UNCHANGED <<cacheVars, chunkVars, poolVars, optVars, monVars, svcVars, lifeVars>>
    \/ ConsumerFinish /\ UNCHANGED <<cacheVars, chunkVars, poolVars, optVars, monVars, svcVars, lifeVars>>
    \/ ConsumerTimeout /\ UNCHANGED <<cacheVars, chunkVars, poolVars, optVars, monVars, svcVars, lifeVars>>
    \/ StopStreaming /\ UNCHANGED <<cacheVars, chunkVars, poolVars, optVars, monVars, svcVars, lifeVars>>
    \/ StreamStopJoin /\ UNCHANGED <<cacheVars, chunkVars, poolVars, optVars, monVars, svcVars, lifeVars>>

SpecStream == InitStreamOnly /\ [][NextStream]_vars

\* ---- streaming synthesis, with the caller iterating the generator ----
\* The caller of synthesize_streaming keeps iterating, and every statement of
\* the generator returns: the queue operations before the loop do not block
\* and audio_queue.get(timeout=5.0) returns a result or raises queue.Empty.
\* Nothing is assumed of the synthesis thread.
GeneratorStep ==
    (StreamEnqueue \/ ConsumerGet \/ ConsumerFinish \/ ConsumerTimeout)
        /\ UNCHANGED <<cacheVars, chunkVars, poolVars, optVars, monVars, svcVars, lifeVars>>

SpecStreamLive == InitStreamOnly /\ [][NextStream]_vars /\ WF_vars(GeneratorStep)

\* ---- the performance monitor alone ----
InitMonOnly == InitMon /\ ParkCache /\ ParkChunk /\ ParkPool /\ ParkOpt /\ ParkStream /\ ParkSvc /\ ParkLife

NextMon ==
    \/ MonStart /\ UNCHANGED <<cacheVars, chunkVars, poolVars, optVars, streamVars, svcVars, lifeVars>>
    \/ MonRecord /\ UNCHANGED <<cacheVars, chunkVars, poolVars, optVars, streamVars, svcVars, lifeVars>>
    \/ MonCompleteUnknown /\ UNCHANGED <<cacheVars, chunkVars, poolVars, optVars, streamVars, svcVars, lifeVars>>
    \/ MonCompleteTracked /\ UNCHANGED <<cacheVars, chunkVars, poolVars, optVars, streamVars, svcVars, lifeVars>>
    \/ ResetMonitorStats /\ UNCHANGED <<cacheVars, chunkVars, poolVars, optVars, streamVars, svcVars, lifeVars>>

SpecMon == InitMonOnly /\ [][NextMon]_vars

\* ---- the services ----
InitSvcOnly == InitSvc /\ ParkChunk /\ ParkPool /\ ParkOpt /\ ParkStream /\ ParkLife

NextSvc ==
    \/ SvcCallSynthesize /\ UNCHANGED <<chunkVars, poolVars, optVars, streamVars, lifeVars>>
    \/ SvcWorkerTake /\ UNCHANGED <<chunkVars, poolVars, optVars, streamVars, lifeVars>>
    \/ SvcStepLookup /\ UNCHANGED <<chunkVars, poolVars, optVars, streamVars, lifeVars>>
    \/ SvcStepFileCache /\ UNCHANGED <<chunkVars, poolVars, optVars, streamVars, lifeVars>>
    \/ SvcStepSynth /\ UNCHANGED <<chunkVars, poolVars, optVars, streamVars, lifeVars>>
    \/ SvcStepInsert /\ UNCHANGED <<chunkVars, poolVars, optVars, streamVars, lifeVars>>
    \/ SvcCallSwitch /\ UNCHANGED <<chunkVars, poolVars, optVars, streamVars, lifeVars>>
    \/ SvcClearCache /\ UNCHANGED <<chunkVars, poolVars, optVars, streamVars, lifeVars>>
    \/ SvcCallStreaming /\ UNCHANGED <<chunkVars, poolVars, optVars, streamVars, lifeVars>>
    \/ OptCallSynthesize /\ UNCHANGED <<chunkVars, poolVars, optVars, streamVars, lifeVars>>
    \/ OptCallSwitch /\ UNCHANGED <<chunkVars, poolVars, optVars, streamVars, lifeVars>>

SpecSvc == InitSvcOnly /\ [][NextSvc]_vars

\* ---- the singletons ----
InitLifeOnly == InitLife /\ ParkPool /\ ParkCache /\ ParkChunk /\ ParkOpt /\ ParkStream /\ ParkMon /\ ParkSvc

LifeOthers == <<chunkVars, optVars, streamVars, monVars, svcVars>>

NextLife ==
    \/ LifeInitPool /\ UNCHANGED LifeOthers
    \/ LifeCallGetModel /\ UNCHANGED LifeOthers
    \/ LifePreloadModels /\ UNCHANGED LifeOthers
    \/ PoolBump /\ UNCHANGED <<lifeVars, cacheVars>> /\ UNCHANGED LifeOthers
    \/ PoolLoadBegin /\ UNCHANGED <<lifeVars, cacheVars>> /\ UNCHANGED LifeOthers
    \/ PoolLoadEnd /\ UNCHANGED <<lifeVars, cacheVars>> /\ UNCHANGED LifeOthers
    \/ WorkerLoop /\ UNCHANGED <<lifeVars, cacheVars>> /\ UNCHANGED LifeOthers
    \/ ShutdownModelPool /\ UNCHANGED LifeOthers
    \/ ShutdownJoin /\ UNCHANGED <<lifeVars, cacheVars>> /\ UNCHANGED LifeOthers
    \/ ShutdownClear /\ UNCHANGED <<lifeVars, cacheVars>> /\ UNCHANGED LifeOthers
    \/ ShutdownModelPoolEnd /\ UNCHANGED LifeOthers
    \/ LifeInitCache /\ UNCHANGED LifeOthers
    \/ LifeCallCacheAudio /\ UNCHANGED LifeOthers
    \/ LifeCallGetCached /\ UNCHANGED LifeOthers
    \/ LifeClearCache /\ UNCHANGED LifeOthers
    \/ ShutdownMemoryCache /\ UNCHANGED LifeOthers

SpecLife == InitLifeOnly /\ [][NextLife]_vars

(***************************************************************************)
(* Claims about MemoryAudioCache (checked under SpecCache)                 *)
(***************************************************************************)

\* C1: after any sequence of put/get/delete/clear calls the bytes held by the
\* stored entries are at most max_size_bytes and the number of stored
\* entries is at most max_entries.
C1_CacheWithinCapacity ==
    /\ StoredBytes <= MaxSizeBytes
    /\ Len(cache) <= MaxEntries

\* The int16 grid value of a float sample: trunc(x * 32767) / 32767.
OnGrid(s) == IF s >= 0 THEN s - (s % SubSteps) ELSE -((-s) - ((-s) % SubSteps))

Quantized(buf) ==
    IF buf.dtype = "float32"
    THEN Buf("float32", [i \in 1..Len(buf.samples) |-> OnGrid(buf.samples[i])])
    ELSE buf

\* A get(key) made right after a put(key, samples, rate) that returned true.
GetRightAfterPut == ret.op = "get" /\ ret.afterPut

C8_EvictsLeastRecentlyTouched ==
    (ret.op = "put" /\ ret.ok /\ ret.fullEqual /\ ret.key \notin ret.keysBefore)
        => CacheKeys(cache) = (ret.keysBefore \ {ret.lruBefore}) \cup {ret.key}

(***************************************************************************)
(* Claims about TextChunker (checked under SpecChunk)                      *)
(***************************************************************************)

\* C9: every chunk that chunk_text yields is at most max_chunk_length long,
\* unless it is a single whitespace-delimited token that is itself longer.
C9_ChunkWithinMaxLength ==
    chunked =>
        \A i \in 1..Len(chunks) :
            \/ Len(chunks[i]) <= max_chunk_length
            \/ Len(Split(chunks[i])) = 1

\* The text passes validation (chunk_text strips it first).
PassesValidation == Strip(text) /= <<>> /\ ValidateTextInput(Strip(text)).ok

\* C10 (as stated): for a text that passes validation, the chunks joined by
\* single spaces are the input's tokens joined by single spaces.
C10_JoinReproducesInput ==
    (chunked /\ PassesValidation) =>
        JoinSpaces(chunks) = JoinSpaces(Split(text))

\* C10 (amended): for a text that passes validation, the chunks joined by
\* single spaces are the tokens of the sanitized text (the text validate_text
\* returns: the input without its control characters) joined by single
\* spaces; no token of the sanitized text is dropped, duplicated, split or
\* reordered.
C10_JoinReproducesSanitized ==
    (chunked /\ PassesValidation) =>
        JoinSpaces(chunks) =
            JoinSpaces(Split(SelectSeq(text, LAMBDA ch : ch \notin ControlChars)))

\* C10 witness: a validated text with a control character was split into
\* two chunks or more.
C10_Witness ==
    /\ chunked
    /\ PassesValidation
    /\ Len(chunks) >= 2
    /\ \E i \in 1..Len(text) : text[i] \in ControlChars

(***************************************************************************)
(* Claims about the model pool (SpecPool)                                  *)
(***************************************************************************)
\* C4: when several threads ask for the same catalog model that is not
\* resident, its engine load runs once and its memory_mb is charged once:
\* at most one thread is in the engine load, never for a model that is
\* resident, every resident model carries exactly one charge and every other
\* model none, and current_memory_mb is the sum of the resident models'
\* memory_mb; a requester that finds the model resident under the lock
\* short-circuits without loading.
C4_LoadedAndChargedOnce ==
    /\ Cardinality({t \in Loaders : pc[t] = "loading"}) <= 1
    /\ \A t \in Loaders : pc[t] = "loading" => arg[t] \notin models
    /\ \A m \in Catalog : charged[m] = IF m \in models THEN 1 ELSE 0
    /\ current_memory_mb = SumMemoryMb(models)

\* Two callers asked for the same non-resident model at the same time: one
\* loaded it, the other found it resident under the lock, and it is charged
\* once.
C4_Witness ==
    \E t1, t2 \in Callers :
        /\ t1 /= t2
        /\ pc[t1] = "post" /\ how[t1] = "loaded"
        /\ pc[t2] = "post" /\ how[t2] = "shortcut"
        /\ arg[t1] = arg[t2]
        /\ arg[t1] \in models
        /\ charged[arg[t1]] = 1
        /\ current_memory_mb = MemoryMb(arg[t1])

\* C6: once shutdown() has returned, current_memory_mb is 0 and no model is
\* resident, whatever a worker or a get_model call that had begun before
\* shutdown started was doing (no call is made after shutdown has started).
C6_EmptyAfterShutdown ==
    (pc[Closer] = "done" /\ ~lateCall) =>
        (current_memory_mb = 0 /\ models = {})

(***************************************************************************)
(* Claims about the optimized service's model pool (SpecOptPool)           *)
(***************************************************************************)
\* C5: a get_model call for a name that is not in the catalog and was never
\* loaded fails (returns no handle) and leaves the resident set as it was:
\* nothing is evicted and nothing is loaded.
C5_UnknownNameFailsWithoutChange ==
    (optRet.name /= "" /\ optRet.name \notin VoiceModels /\ optRet.neverLoaded) =>
        (optRet.outcome = "none" /\ optRet.after = optRet.before)

(***************************************************************************)
(* Claims about streaming synthesis (SpecStream)                           *)
(***************************************************************************)
\* The chunk events (audio or error) yielded so far in the call.
ChunkEvents == SelectSeq(events, LAMBDA e : e.type /= "complete")

\* C2: the chunk events are yielded in strictly ascending chunk_id order and
\* none is yielded before its predecessor: the ids yielded so far are
\* 0, 1, 2, ... without a gap.  Stated for a call that no earlier call's
\* work and no stop_streaming overlaps and in which the pool gave the model
\* for every chunk.
C2_EmittedInAscendingOrder ==
    ~disturbed =>
        \A i \in 1..Len(ChunkEvents) : ChunkEvents[i].chunk_id = i - 1

\* C3: a call whose text has N >= 1 chunks ends having yielded exactly N
\* audio-or-error events, one for each chunk id 0..N-1, followed by exactly
\* one completion event.  Stated for a call that nothing overlaps, in which
\* the pool gave the model for every chunk, and that did not time out while
\* work was outstanding.
C3_AllChunksThenCompletion ==
    (cpc = "done" /\ ~disturbed /\ total_chunks >= 1) =>
        /\ Len(events) = total_chunks + 1
        /\ events[Len(events)].type = "complete"
        /\ \A i \in 1..total_chunks : events[i].type \in {"audio", "error"}
        /\ \A id \in 0..(total_chunks - 1) :
              Cardinality({i \in 1..total_chunks : events[i].chunk_id = id}) = 1

\* C16: a successful result that the generator has put aside in
\* pending_chunks is yielded as an audio event once every chunk before it
\* has been yielded: when the call has ended, no result is left in
\* pending_chunks whose predecessors have all been yielded.  Stated for a
\* call that nothing overlaps.
C16_BufferedChunkIsEmitted ==
    (cpc = "done" /\ ~disturbed) =>
        \A id \in pending_chunks :
            (\A p \in 0..(id - 1) :
                \E i \in 1..Len(ChunkEvents) : ChunkEvents[i].chunk_id = p)
            => \E i \in 1..Len(ChunkEvents) :
                   /\ ChunkEvents[i].type = "audio"
                   /\ ChunkEvents[i].chunk_id = id

(***************************************************************************)
(* Claims about PerformanceMonitor (checked under SpecMon)                 *)
(***************************************************************************)

\* C11: complete_request on an id that is not being tracked (never started,
\* or already completed) returns None and leaves metrics_history, the
\* statistics and the active set as they were; and no id ever gets a
\* history entry that a start_request of that id has not paid for, so a
\* started request contributes at most one entry.
C11_UntrackedCompleteIsNoOp ==
    /\ [](~overdrawn)
    /\ [][(/\ monRet'.op = "complete_request"
           /\ monRet'.id \notin DOMAIN active_requests)
          => (/\ monRet'.result = "None"
              /\ metrics_history' = metrics_history
              /\ mstats' = mstats
              /\ active_requests' = active_requests)]_vars

\* A request that is already in the history was completed once more, and
\* the call returned None.
C11_Witness ==
    /\ monRet.op = "complete_request"
    /\ monRet.result = "None"
    /\ \E i \in 1..Len(metrics_history) : metrics_history[i].request_id = monRet.id
    /\ credit[monRet.id] = 0

\* The last n elements of s.
LastN(s, n) == SubSeq(s, Len(s) - n + 1, Len(s))

\* C12: metrics_history never holds more than history_size entries, and it
\* always is the most recent history_size completions since the last
\* reset, in completion order (a completion at a full buffer drops the
\* oldest entry).
C12_HistoryIsMostRecentWindow ==
    /\ Len(metrics_history) <= history_size
    /\ metrics_history =
         LastN(completedLog,
               IF Len(completedLog) < history_size
               THEN Len(completedLog) ELSE history_size)

\* A completion arrived at a full buffer of at least one entry.
C12_Witness ==
    /\ history_size > 0
    /\ Len(completedLog) > history_size
    /\ Len(metrics_history) = history_size
    /\ monRet.op = "complete_request" /\ monRet.result = "metrics"

\* The element at 0-based index k of the sorted latencies of hist: the value
\* v with at most k latencies below it and more than k latencies at or
\* below it.
KthLatency(hist, k) ==
    CHOOSE v \in Range(LatenciesOf(hist)) :
        /\ Cardinality({i \in 1..Len(hist) : hist[i].total_latency_ms < v}) <= k
        /\ Cardinality({i \in 1..Len(hist) : hist[i].total_latency_ms <= v}) > k

\* C13: while the history has not held 20 samples since the last reset,
\* p95_latency_ms and p99_latency_ms are 0; whenever it holds n >= 20
\* samples they are the elements at index floor(0.95 n) and floor(0.99 n)
\* of the sorted latencies of the current buffer.
C13_PercentilesFromTwentySamples ==
    LET n == Len(metrics_history) IN
    /\ peak < 20 => (mstats.p95_latency_ms = 0 /\ mstats.p99_latency_ms = 0)
    /\ n >= 20 =>
         /\ mstats.p95_latency_ms = KthLatency(metrics_history, (95 * n) \div 100)
         /\ mstats.p99_latency_ms = KthLatency(metrics_history, (99 * n) \div 100)

\* At least 20 samples are held and the two percentiles differ.
C13_Witness ==
    /\ Len(metrics_history) >= 20
    /\ mstats.p95_latency_ms /= mstats.p99_latency_ms
    /\ mstats.p99_latency_ms > 0

(***************************************************************************)
(* Claims about TTSService and OptimizedTTSService (checked under SpecSvc) *)
(***************************************************************************)
\* No call of the caller is in progress, the worker is idle and nothing is
\* queued for it.
SvcQuiescent == tpc = [t \in SvcThreads |-> "idle"] /\ svc_queue = <<>>

\* C17: every request that synthesize or synthesize_streaming started with
\* start_request is completed and removed from active_requests on every path
\* (memory hit, successful synthesis, synthesis that fails and returns None,
\* raised exception, request processed by the worker): once the service is
\* at rest no request is left in the active set.
C17_NoRequestStaysActive ==
    (variant = "tts" /\ SvcQuiescent) => DOMAIN active_requests = {}

\* C18: after any sequence of TTSService.synthesize calls the file-cache
\* index audio_cache never holds more than max_cache_size entries.
C18_IndexWithinMaxCacheSize ==
    variant = "tts" => Len(audio_cache) <= MaxCacheSize

\* C19: when switch_model(m) succeeds with m different from the current
\* model, it leaves the entire audio cache empty: the memory cache holds no
\* entries and the file-cache index audio_cache has length 0.
C19_SwitchEmptiesTheCache ==
    [][(/\ current_model' /= current_model
        /\ svcRet'.op = "switch_model"
        /\ svcRet'.result = "switched")
       => IF variant = "tts"
          THEN cache' = <<>> /\ Len(audio_cache') = 0
          ELSE memory_cache' = <<>>]_vars

\* The audio of text t is within what the memory cache of the service
\* stores: put of both caches leaves out an audio larger than max_size_bytes.
FitsTheCache(t) ==
    IF variant = "tts"
    THEN CalculateAudioSize(CompressAudio(AudioOf(t))) <= MaxSizeBytes
    ELSE EstimateSize(Samples(t)) <= OptMaxSizeBytes

LifeOperations ==
    {"get_model", "preload_models", "cache_audio", "get_cached_audio", "clear_cache"}

\* C20: for the AudioCache and ModelPool singletons, every operation issued
\* before init or after shutdown fails with a lifecycle error and changes
\* nothing; and once shutdown_model_pool has returned, no get_model call
\* loads a model into the torn-down pool or changes its memory accounting.
C20_NoUseOutsideLifecycle ==
    /\ [][(/\ lifeCalls' = lifeCalls + 1
           /\ lifeRet'.op \in LifeOperations
           /\ lifeRet'.phase /= "live")
          => (/\ lifeRet'.outcome = "RuntimeError"
              /\ UNCHANGED <<poolVars, cacheVars, g_model_pool, g_memory_cache>>)]_vars
    /\ [][poolPhase = "down" => UNCHANGED <<models, current_memory_mb>>]_vars

(***************************************************************************)
(* More claims about streaming synthesis (SpecStream, SpecStreamLive)      *)
(***************************************************************************)
\* The ids of the chunks of the call whose audio arrived at the generator:
\* each one was yielded or put aside in pending_chunks.
ArrivedAudio ==
    pending_chunks \cup
    {ChunkEvents[i].chunk_id : i \in {j \in 1..Len(ChunkEvents) : ChunkEvents[j].type = "audio"}}

\* C21: when the synthesis of chunk k fails, its error event is yielded at
\* position k of the output, after the events of all chunks before k, and it
\* is counted; every other chunk whose synthesis succeeds is still yielded
\* as an audio event.  Stated for a call that has ended and that nothing
\* overlaps.
C21_ErrorInItsSlotSiblingsEmitted ==
    (cpc = "done" /\ ~disturbed) =>
        /\ \A i \in 1..Len(ChunkEvents) :
              ChunkEvents[i].type = "error" => ChunkEvents[i].chunk_id = i - 1
        /\ chunks_received = Len(ChunkEvents)
        /\ \A id \in ArrivedAudio :
              \E i \in 1..Len(ChunkEvents) :
                  ChunkEvents[i] = Event("audio", id)

\* C22: synthesize_streaming always terminates: a call that has started
\* ends, whatever the synthesis thread does, because each wait for a result
\* ends with a result or with the timeout, and the timeout ends the loop.
C22_StreamingTerminates == (cpc \in {"clear", "loop"}) ~> (cpc = "done")

\* A call has ended by the timeout with the synthesis thread dead and chunks
\* still missing.
C22_Witness ==
    /\ cpc = "done"
    /\ chunks_received < total_chunks
    /\ workerPc = "dead"
    /\ audio_queue = <<>>

\* C23: a call of N >= 1 chunks that has ended has yielded a completion
\* event exactly when all N chunks were yielded as audio or error events,
\* also when every chunk ended in an error; a call that ended early by the
\* timeout has yielded none.
C23_CompletionIffAllAccounted ==
    (cpc = "done" /\ total_chunks >= 1) =>
        ((\E i \in 1..Len(events) : events[i].type = "complete")
            <=> Len(ChunkEvents) = total_chunks)

\* C24: once stop_streaming has set the stop signal, the synthesis thread
\* starts no further chunk synthesis for the stopped stream.
C24_NoSynthesisStartsAfterStop ==
    [][(stop_event /\ stoppedStream = streamCalls /\ workerPc /= "synth")
          => workerPc' /= "synth"]_vars

(***************************************************************************)
(* More claims about the model pool (SpecPool)                             *)
(***************************************************************************)
\* C25: get_model for a catalog model is never refused because of memory
\* pressure: the load of a catalog model that is not resident always goes on
\* to the engine call, however little room the eviction left; a load whose
\* engine call succeeds makes the model resident; and the call whose load
\* went beyond the budget returns the model.
C25_LoadedBeyondBudgetAndReturned ==
    /\ [][\A t \in Loaders :
            (pc[t] = "wait" /\ pc'[t] /= "wait" /\ arg[t] \in Catalog
                /\ arg[t] \notin models)
            => pc'[t] = "loading"]_vars
    /\ [][\A t \in Callers :
            (pc[t] = "loading" /\ pc'[t] = "post") => arg[t] \in models']_vars
    /\ [][\A t \in Callers :
            (pc[t] = "post" /\ how[t] = "forced" /\ pc'[t] = "idle")
            => res' = [name |-> arg[t], outcome |-> "handle"]]_vars

\* C26: in every reachable state the memory_mb of the resident models sum
\* to no more than max_memory_mb.
C26_ResidentWithinBudget == SumMemoryMb(models) <= MaxMemoryMb

\* C27: a get_model call never waits for the background worker: no caller
\* stands before the load lock while the worker holds it for a load.
C27_CallerNeverWaitsForWorker ==
    \A t \in Callers : pc[t] = "wait" => loading_lock /= Worker

\* The position of a resident model in the order of last_access.
AccessRank(m) == CHOOSE i \in 1..Len(accessOrder) : accessOrder[i] = m

\* C30: the eviction of a load never removes a model of the preload list,
\* and the models it removes are the least recently accessed of the others:
\* each one removed was accessed before each one of the others that stays;
\* a resident model of the preload list leaves the pool only by
\* unload_model or shutdown.
C30_EvictionSparesPreloadInLruOrder ==
    /\ [][(\E t \in Loaders : pc[t] = "wait" /\ pc'[t] /= "wait")
            => /\ (models \ models') \cap preload = {}
               /\ \A gone \in models \ models' :
                    \A kept \in (models \cap models') \ preload :
                        AccessRank(gone) < AccessRank(kept)]_vars
    /\ [][(\E m \in preload : m \in models /\ m \notin models')
            => \/ pc[Closer] = "wait" /\ pc'[Closer] = "done"
               \/ calls' = calls + 1 /\ pc' = pc]_vars

\* A load found too little room, its eviction passed over the resident
\* models of the preload list, and the model was loaded beside them.
C30_Witness ==
    /\ preload /= {}
    /\ preload \subseteq models
    /\ \E t \in Callers : pc[t] = "post" /\ how[t] = "forced" /\ arg[t] \in models

(***************************************************************************)
(* More claims about the memory cache (SpecCache)                          *)
(***************************************************************************)
\* The buffer MemoryAudioCache.put is handed for the caller's buffer b: the
\* compressed cache hands over the quantised one.
HandedToPut(b) == IF compressed THEN CompressAudio(b) ELSE b

\* C28: a put of a buffer whose size is more than max_size_bytes returns
\* False and leaves the entries, their order, the recency order and every
\* statistic exactly as they were, also when the key is already stored.
C28_OversizedPutChangesNothing ==
    [][ ( /\ ops' = ops + 1
          /\ ret'.op = "put"
          /\ CalculateAudioSize(HandedToPut(ret'.data)) > MaxSizeBytes )
        => ( /\ ~ret'.ok
             /\ cache' = cache
             /\ stats' = stats
             /\ touch' = touch ) ]_vars

\* An oversized put on a key that is stored has just been refused.
C28_Witness ==
    /\ ret.op = "put"
    /\ ~ret.ok
    /\ ret.data = OversizedBuffer
    /\ CalculateAudioSize(HandedToPut(ret.data)) > MaxSizeBytes
    /\ ret.key \in CacheKeys(cache)
    /\ cache[KeyIndex(cache, ret.key)].data /= HandedToPut(ret.data)

\* The keys in the order _evict_lru pops them: the head goes first.
EvictionOrder(c) == [i \in 1..Len(c) |-> c[i].key]

\* C29: every get hit and every successful put, of a new key or of a stored
\* one, leaves its key last in the eviction order, so the next eviction
\* takes another entry while there is one; has() and a get miss leave the
\* eviction order as it was.
C29_StrictLruOverGetAndPut ==
    [][ /\ ( ops' = ops + 1 /\ ret'.op \in {"put", "get"} /\ ret'.ok )
            => ( /\ cache' /= <<>>
                 /\ cache'[Len(cache')].key = ret'.key )
        /\ ( ops' = ops + 1
             /\ (ret'.op = "has" \/ (ret'.op = "get" /\ ~ret'.ok)) )
            => EvictionOrder(cache') = EvictionOrder(cache) ]_vars

(***************************************************************************)
(* Claims about failed loads, eviction and accounting of the model pool    *)
(* (SpecPool)                                                              *)
(***************************************************************************)
\* The model the eviction of this step removed last: the one of the removed
\* models that was accessed most recently.
LastEvicted ==
    CHOOSE m \in models \ models' :
        \A x \in models \ models' : AccessRank(x) <= AccessRank(m)

\* C31: the eviction of a load stops at the first point where the incoming
\* model fits: before the last model it removed was removed,
\* current_memory_mb plus the incoming model's memory_mb was still more than
\* max_memory_mb.
C31_EvictionStopsWhenIncomingFits ==
    [][ \A t \in Loaders :
          ( pc[t] = "wait" /\ pc'[t] = "loading" /\ models' /= models )
             => current_memory_mb' + MemoryMb(LastEvicted) + MemoryMb(arg[t])
                    > MaxMemoryMb ]_vars

\* C32: when the engine call of a load of X raises, a caller's get_model(X)
\* returns None, X is not resident and not charged, current_memory_mb is the
\* sum over the resident models, the lock is free for the next load, and the
\* worker is back at its loop.
C32_FailedLoadReportedPoolSound ==
    [][ \A t \in Loaders :
          LoadEnd(t, FALSE)
             => /\ t \in Callers => res' = [name |-> arg[t], outcome |-> "none"]
                /\ pc'[t] = "idle"
                /\ arg[t] \notin models'
                /\ charged'[arg[t]] = 0
                /\ current_memory_mb' = SumMemoryMb(models')
                /\ loading_lock' = "free" ]_vars

\* A get_model of a catalog model has returned None after its engine call
\* raised, while another model is resident.
C32_Witness ==
    /\ res.outcome = "none"
    /\ res.name \in Catalog
    /\ res.name \notin models
    /\ models /= {}
    /\ pc[Worker] = "idle"

\* C36: current_memory_mb is the sum of memory_mb over the resident models,
\* and is never negative.
C36_MemoryIsSumOfResident ==
    /\ current_memory_mb = SumMemoryMb(models)
    /\ current_memory_mb >= 0

\* An engine call is running after its load evicted a model, and the pool is
\* not empty.
C36_Witness ==
    /\ beforeLoad /= NoSnapshot
    /\ beforeLoad.models /= models
    /\ models /= {}
    /\ ShutdownStarted

\* C37: get_model ends by returning a handle or None, never by an error
\* raised from the metadata of a model that was removed meanwhile.
C37_GetModelNeverRaises ==
    res.outcome \in {"", "handle", "none"}

\* C38: a load whose engine call raises leaves the resident set and
\* current_memory_mb as the load found them when it took the lock.
C38_FailedLoadLeavesPoolAsItWas ==
    [][ \A t \in Loaders :
          LoadEnd(t, FALSE)
             => /\ models' = beforeLoad.models
                /\ current_memory_mb' = beforeLoad.memory ]_vars

(***************************************************************************)
(* More claims about TextChunker (SpecChunk)                               *)
(***************************************************************************)
\* C34: for every configuration with 1 <= min_chunk_length <=
\* max_chunk_length, every chunk that chunk_text yields except the last one
\* is at least min_chunk_length long.
C34_OnlyLastChunkBelowMin ==
    (chunked /\ 1 <= min_chunk_length /\ min_chunk_length <= max_chunk_length)
        => \A i \in 1..(Len(chunks) - 1) : Len(chunks[i]) >= min_chunk_length

\* C35: after every cache call the accounting matches the contents:
\* current_size_bytes is the sum of the sizes of the stored entries,
\* current_entries is their number, and neither is negative.
C35_AccountingMatchesContents ==
    /\ stats.current_size_bytes = StoredBytes
    /\ stats.current_entries = Len(cache)
    /\ stats.current_size_bytes >= 0
    /\ stats.current_entries >= 0

(***************************************************************************)
(* Claims about failures, successive calls and reuse of streaming          *)
(* synthesis (SpecStream)                                                  *)
(***************************************************************************)
\* C33: when the worker takes chunk k and the pool gives it no model, an
\* error result for chunk k is queued for the generator, which yields it as
\* the error event of chunk k.
C33_NoModelReportedInBand ==
    [][ ( WorkerGet(FALSE) /\ Head(synthesis_queue) /= NoneItem )
        => \E i \in 1..Len(audio_queue') :
              /\ audio_queue'[i].chunk_id = Head(synthesis_queue)
              /\ audio_queue'[i].kind = "error" ]_vars

\* C39: a result the worker produced for a chunk of an earlier
\* synthesize_streaming call is neither yielded by the current call nor
\* counted in its chunks_received.
C39_CallsAreIsolated ==
    [][ ( ConsumerGet /\ Head(audio_queue).call /= streamCalls )
        => ( events' = events /\ chunks_received' = chunks_received ) ]_vars

\* C40: in a synthesize_streaming call that began after stop_streaming had
\* returned, and during which stop_streaming is not called again, the worker
\* does not end: neither a None left in synthesis_queue nor a stop_event
\* that is still set ends it while the call runs.
C40_WorkerLivesThroughCallAfterStop ==
    [][ ( /\ afterStop
          /\ stoppedStream < streamCalls
          /\ cpc \in {"clear", "loop"}
          /\ workerPc /= "dead" )
        => workerPc' /= "dead" ]_vars

====
